---- MODULE Spec2Model ----
(***************************************************************************)
(* Doctors Note Upscaler: the OCR attempt orchestrator, the OCR error      *)
(* corrector, the fragment reconstructor, the abbreviation expander, the   *)
(* formatter, the cleaning pipeline and the quality validator of           *)
(* src/utils.py, and the file handler of src/main.py, as state machines.   *)
(*                                                                         *)
(* In the banner line that the pipeline puts before a cleaned text, an     *)
(* emoji code point and the escape character are each one element.         *)
(*                                                                         *)
(* A text is a sequence of one-character strings.  A confidence is an      *)
(* exact rational [n, d] with d > 0 (Python computes sum/len as a float;   *)
(* every comparison below is done by cross-multiplication, which agrees    *)
(* with the float comparison on the values the model draws).               *)
(***************************************************************************)
EXTENDS Integers, Sequences, FiniteSets, TLC

VARIABLES
    \* ---- enhanced_ocr_extraction (src/utils.py:221-308)
    o_pc,            \* "start" | "loop" | "finish" | "done"
    o_i,             \* index into ocr_configs of the next configuration (1..5), 6 after the loop
    best_text,       \* best_text
    best_confidence, \* best_confidence
    n_attempts,      \* len(all_attempts)
    last_attempt,    \* all_attempts[-1] as [text, conf, config], or NoAttempt
    prev_attempt,    \* all_attempts[-2], or NoAttempt
    data_conf,       \* [raised, conf]: data['conf'] of the latest image_to_data call
    tried,           \* psm numbers whose image_to_string call was made, in order
    fb_calls,        \* number of fallback image_to_string calls on the original image
    fb_outcome,      \* "none" | "text" | "empty" | "raise": what the fallback call gave
    fb_text,         \* the raw text the fallback call returned
    o_result,        \* the returned tuple [success, text, conf], or NoResult
    \* ---- fix_ocr_errors (src/utils.py:348-385)
    f_pc,            \* "idle" | "done"
    f_text,          \* text argument
    f_aggressive,    \* aggressive argument
    f_result,        \* [fault, text]: the returned text, or the re.error raised
    \* ---- validate_extracted_text_enhanced (src/utils.py:569-618)
    v_pc,            \* "idle" | "done"
    v_text,          \* text argument
    v_conf,          \* confidence_score argument
    v_result,        \* [fault, is_valid, grade, suggestions]
    \* ---- reconstruct_fragmented_text (src/utils.py:411-442)
    r_pc,            \* "idle" | "done"
    r_text,          \* text argument
    r_result,        \* the returned text
    \* ---- replace_medical_abbreviations_enhanced (src/utils.py:469-508)
    a_pc,            \* "idle" | "done"
    a_text,          \* text argument
    a_result,        \* the returned text
    \* ---- clean_formatting_enhanced (src/utils.py:510-535)
    m_pc,            \* "idle" | "once" | "twice"
    m_text,          \* text argument of the first call
    m_once,          \* the text the first call returned
    m_twice,         \* the text the call on m_once returned
    \* ---- process_image: extraction, then intelligent_text_cleaning (src/main.py:73-93)
    c_pc,            \* "idle" | "extracted" | "failed" | "done"
    c_script,        \* what the OCR capability gives on this image
    c_extracted,     \* [success, text, conf] returned by enhanced_ocr_extraction
    c_result,        \* [fault, text]: cleaned_text, or the exception raised
    \* ---- add_confidence_indicators, then the validator on its output
    \*      (src/utils.py:537-567, src/main.py:93-96)
    n_pc,            \* "idle" | "annotated" | "validated"
    n_text,          \* text argument
    n_conf,          \* confidence_score argument
    n_result,        \* the text add_confidence_indicators returned
    n_quality,       \* [fault, is_valid, grade, suggestions] of the validator on n_result
    \* ---- MainWindow, CameraWindow and OCRWorker (src/gui_main.py)
    upload_btn,      \* upload_btn.isEnabled()
    camera_btn,      \* camera_btn.isEnabled()
    camera_window,   \* "none" | "open" | "no_camera" | "closed": the CameraWindow on screen
    workers,         \* the OCRWorker threads started and not yet reported, oldest first
    ocr_worker,      \* number of the worker self.ocr_worker names, 0 for None
    status_bar,      \* the message of the status bar
    app_state        \* "running" | "aborted": the GUI process

ovars == <<o_pc, o_i, best_text, best_confidence, n_attempts, last_attempt,
           prev_attempt, data_conf, tried, fb_calls, fb_outcome, fb_text, o_result>>
fvars == <<f_pc, f_text, f_aggressive, f_result>>
vvars == <<v_pc, v_text, v_conf, v_result>>
rvars == <<r_pc, r_text, r_result>>
avars == <<a_pc, a_text, a_result>>
mvars == <<m_pc, m_text, m_once, m_twice>>
cvars == <<c_pc, c_script, c_extracted, c_result>>
nvars == <<n_pc, n_text, n_conf, n_result, n_quality>>
gvars == <<upload_btn, camera_btn, camera_window, workers, ocr_worker, status_bar,
           app_state>>
svars == <<rvars, avars, mvars, cvars, nvars, gvars>>
vars == <<ovars, fvars, vvars, svars>>

----------------------------------------------------------------------------
(* Characters and Python's str helpers                                     *)

Digits == {"0", "1", "2", "3", "4", "5", "6", "7", "8", "9"}

LowerSeq == <<"a", "b", "c", "d", "e", "f", "g", "h", "i", "j", "k", "l", "m",
              "n", "o", "p", "q", "r", "s", "t", "u", "v", "w", "x", "y", "z">>

UpperSeq == <<"A", "B", "C", "D", "E", "F", "G", "H", "I", "J", "K", "L", "M",
              "N", "O", "P", "Q", "R", "S", "T", "U", "V", "W", "X", "Y", "Z">>

Range(f) == {f[k] : k \in DOMAIN f}

Lowers == Range(LowerSeq)

Uppers == Range(UpperSeq)

\* \s of re, and the characters str.strip() removes
Spaces == {" ", "\t", "\n", "\r", "\f"}

\* \w of re
WordChars == Digits \cup Lowers \cup Uppers \cup {"_"}

\* str.lower() on one character
LowerChar(c) ==
    IF c \in Uppers THEN LowerSeq[CHOOSE k \in DOMAIN UpperSeq : UpperSeq[k] = c] ELSE c

\* str.lower()
Lower(s) == [k \in DOMAIN s |-> LowerChar(s[k])]

\* str.lstrip(): drop the leading whitespace
RECURSIVE LStrip(_)
LStrip(s) ==
    IF s # <<>> /\ Head(s) \in Spaces THEN LStrip(Tail(s)) ELSE s

\* str.rstrip(): drop the trailing whitespace
RECURSIVE RStrip(_)
RStrip(s) ==
    IF s # <<>> /\ s[Len(s)] \in Spaces THEN RStrip(SubSeq(s, 1, Len(s) - 1)) ELSE s

\* str.strip()
Strip(s) == RStrip(LStrip(s))

----------------------------------------------------------------------------
(* Confidences as exact rationals                                          *)

Rat(k) == [n |-> k, d |-> 1]

RatLt(a, b) == a.n * b.d < b.n * a.d

RatLe(a, b) == a.n * b.d <= b.n * a.d

RatEq(a, b) == a.n * b.d = b.n * a.d

\* max(a, b) of Python: the first of the largest
RatMax(a, b) == IF RatLt(a, b) THEN b ELSE a

RECURSIVE SumSeq(_)
SumSeq(s) == IF s = <<>> THEN 0 ELSE Head(s) + SumSeq(Tail(s))

----------------------------------------------------------------------------
(* enhanced_ocr_extraction                                                 *)

\* Longest text the OCR capability returns in the model (before trimming).
MaxTextLen == 4

\* Config.MIN_TEXT_LENGTH
MIN_TEXT_LENGTH == 3

\* the psm numbers of ocr_configs, in the order they are tried
ocr_configs == <<6, 4, 8, 7, 13>>

\* avg_confidence when image_to_data (or int(x)) raises
DEFAULT_CONFIDENCE == 50

\* the fallback is tried when best_confidence is below this
FALLBACK_BELOW == 30

\* the confidence floor given to a fallback text
FALLBACK_FLOOR == 40

NoAttempt == [text |-> <<>>, conf |-> Rat(0), config |-> 0]

NoResult == [success |-> FALSE, text |-> <<>>, conf |-> Rat(0), returned |-> FALSE]

\* the confidence calculation raised (image_to_data, or int(x) on a value)
DataRaised == [raised |-> TRUE, conf |-> <<>>]

NoData == [raised |-> FALSE, conf |-> <<>>]

\* the first k lowercase letters
Word(k) == SubSeq(LowerSeq, 1, k)

\* what image_to_string may return: whitespace only, or a text of
\* 2..MaxTextLen letters with the surrounding whitespace tesseract emits
OcrTexts ==
    {<<" ", "\n">>} \cup {<<" ">> \o Word(k) \o <<"\n", "\f">> : k \in 2..MaxTextLen}

\* what data['conf'] may hold: -1 and 0 for the non-text boxes, 1..100 for words
ConfLists ==
    {<<-1, 0>>, <<20>>, <<20, 30>>, <<30, -1, 50>>}

\* confidences = [int(x) for x in data['conf'] if int(x) > 0]
Positive(conf) == SelectSeq(conf, LAMBDA x : x > 0)

\* a slip: the mean taken over every value, the non-positive ones included
AvgConfidenceAllValues(conf) ==
    IF conf # <<>> THEN [n |-> SumSeq(conf), d |-> Len(conf)] ELSE Rat(0)

\* avg_confidence = sum(confidences) / len(confidences) if confidences else 0
AvgConfidence(conf) ==
    LET confidences == Positive(conf)
    IN  IF confidences # <<>>
        THEN [n |-> SumSeq(confidences), d |-> Len(confidences)]
        ELSE Rat(0)

\* avg_confidence >= best_confidence * 0.8
AtLeast80Percent(avg, best) == avg.n * best.d * 10 >= best.n * 8 * avg.d

\* a slip: >= in place of > on the confidence
ShouldReplaceOnTie(text, avg, bt, bc) ==
    /\ Strip(text) # <<>>
    /\ \/ RatLe(bc, avg)
       \/ AtLeast80Percent(avg, bc) /\ Len(Strip(text)) > Len(bt)

\* a slip: the length rule dropped, only a strictly higher confidence replaces
ShouldReplaceByConfidenceOnly(text, avg, bt, bc) ==
    Strip(text) # <<>> /\ RatLt(bc, avg)

\* the condition of the if at utils.py:269-270
ShouldReplace(text, avg, bt, bc) ==
    /\ Strip(text) # <<>>
    /\ \/ RatLt(bc, avg)
       \/ AtLeast80Percent(avg, bc) /\ Len(Strip(text)) > Len(bt)

\* a slip: on a replacement the higher of the two confidences is kept
RecordAttemptKeepingMax(text, avg) ==
    /\ n_attempts' = n_attempts + 1
    /\ prev_attempt' = last_attempt
    /\ last_attempt' = [text |-> Strip(text), conf |-> avg, config |-> ocr_configs[o_i]]
    /\ IF ShouldReplace(text, avg, best_text, best_confidence)
       THEN best_text' = Strip(text) /\ best_confidence' = RatMax(best_confidence, avg)
       ELSE UNCHANGED <<best_text, best_confidence>>
    /\ tried' = Append(tried, ocr_configs[o_i])
    /\ o_i' = o_i + 1
    /\ UNCHANGED <<o_pc, fb_calls, fb_outcome, fb_text, o_result>>

\* the body of the for loop after both OCR calls returned (utils.py:266-272)
RecordAttempt(text, avg) ==
    /\ n_attempts' = n_attempts + 1
    /\ prev_attempt' = last_attempt
    /\ last_attempt' = [text |-> Strip(text), conf |-> avg, config |-> ocr_configs[o_i]]
    /\ IF ShouldReplace(text, avg, best_text, best_confidence)
       THEN best_text' = Strip(text) /\ best_confidence' = avg
       ELSE UNCHANGED <<best_text, best_confidence>>
    /\ tried' = Append(tried, ocr_configs[o_i])
    /\ o_i' = o_i + 1
    /\ UNCHANGED <<o_pc, fb_calls, fb_outcome, fb_text, o_result>>

InLoop == o_pc = "loop" /\ o_i <= Len(ocr_configs)

AfterLoop == o_pc = "loop" /\ o_i > Len(ocr_configs)

\* preprocess_image_for_ocr returns an image (its own or the original one)
Preprocess ==
    /\ o_pc = "start"
    /\ o_pc' = "loop"
    /\ o_i' = 1
    /\ best_text' = <<>>
    /\ best_confidence' = Rat(0)
    /\ n_attempts' = 0
    /\ UNCHANGED <<last_attempt, prev_attempt, data_conf, tried, fb_calls,
                   fb_outcome, fb_text, o_result>>
    /\ UNCHANGED <<fvars, vvars, svars>>

\* Image.open in the except branch of preprocess_image_for_ocr raises: the
\* outer except of enhanced_ocr_extraction returns (False, "", 0)
PreprocessFault ==
    /\ o_pc = "start"
    /\ o_pc' = "done"
    /\ o_result' = [success |-> FALSE, text |-> <<>>, conf |-> Rat(0), returned |-> TRUE]
    /\ UNCHANGED <<o_i, best_text, best_confidence, n_attempts, last_attempt,
                   prev_attempt, data_conf, tried, fb_calls, fb_outcome, fb_text>>
    /\ UNCHANGED <<fvars, vvars, svars>>

\* image_to_string and image_to_data both return
ConfigOk ==
    /\ InLoop
    /\ \E text \in OcrTexts, conf \in ConfLists :
          /\ data_conf' = [raised |-> FALSE, conf |-> conf]
          /\ RecordAttempt(text, AvgConfidence(conf))
    /\ UNCHANGED <<fvars, vvars, svars>>

\* image_to_string returns, the confidence calculation raises
ConfigDataRaises ==
    /\ InLoop
    /\ \E text \in OcrTexts :
          /\ data_conf' = DataRaised
          /\ RecordAttempt(text, Rat(DEFAULT_CONFIDENCE))
    /\ UNCHANGED <<fvars, vvars, svars>>

\* image_to_string raises: the attempt is skipped
ConfigRaises ==
    /\ InLoop
    /\ tried' = Append(tried, ocr_configs[o_i])
    /\ o_i' = o_i + 1
    /\ UNCHANGED <<o_pc, best_text, best_confidence, n_attempts, last_attempt,
                   prev_attempt, data_conf, fb_calls, fb_outcome, fb_text, o_result>>
    /\ UNCHANGED <<fvars, vvars, svars>>

\* a slip: and in place of or
NeedFallbackBoth == best_text = <<>> /\ RatLt(best_confidence, Rat(FALLBACK_BELOW))

\* if not best_text or best_confidence < 30
NeedFallback == best_text = <<>> \/ RatLt(best_confidence, Rat(FALLBACK_BELOW))

\* the fallback image_to_string on the original image returns
FallbackReturns ==
    /\ AfterLoop
    /\ NeedFallback
    /\ \E text \in OcrTexts :
          /\ fb_text' = text
          /\ IF Strip(text) # <<>>
             THEN /\ best_text' = Strip(text)
                  /\ best_confidence' = RatMax(best_confidence, Rat(FALLBACK_FLOOR))
                  /\ fb_outcome' = "text"
             ELSE /\ UNCHANGED <<best_text, best_confidence>>
                  /\ fb_outcome' = "empty"
    /\ fb_calls' = fb_calls + 1
    /\ o_pc' = "finish"
    /\ UNCHANGED <<o_i, n_attempts, last_attempt, prev_attempt, data_conf, tried, o_result>>
    /\ UNCHANGED <<fvars, vvars, svars>>

\* Image.open or the fallback image_to_string raises
FallbackRaises ==
    /\ AfterLoop
    /\ NeedFallback
    /\ fb_calls' = fb_calls + 1
    /\ fb_outcome' = "raise"
    /\ o_pc' = "finish"
    /\ UNCHANGED <<o_i, best_text, best_confidence, n_attempts, last_attempt,
                   prev_attempt, data_conf, tried, fb_text, o_result>>
    /\ UNCHANGED <<fvars, vvars, svars>>

\* the fallback is not needed
NoFallback ==
    /\ AfterLoop
    /\ ~NeedFallback
    /\ o_pc' = "finish"
    /\ UNCHANGED <<o_i, best_text, best_confidence, n_attempts, last_attempt,
                   prev_attempt, data_conf, tried, fb_calls, fb_outcome, fb_text, o_result>>
    /\ UNCHANGED <<fvars, vvars, svars>>

\* a slip: > in place of >=
SuccessStrict(bt) == bt # <<>> /\ Len(Strip(bt)) > MIN_TEXT_LENGTH

\* success = bool(best_text and len(best_text.strip()) >= Config.MIN_TEXT_LENGTH)
Success(bt) == bt # <<>> /\ Len(Strip(bt)) >= MIN_TEXT_LENGTH

\* return success, best_text, best_confidence
Return ==
    /\ o_pc = "finish"
    /\ o_pc' = "done"
    /\ o_result' = [success |-> Success(best_text), text |-> best_text,
                    conf |-> best_confidence, returned |-> TRUE]
    /\ UNCHANGED <<o_i, best_text, best_confidence, n_attempts, last_attempt,
                   prev_attempt, data_conf, tried, fb_calls, fb_outcome, fb_text>>
    /\ UNCHANGED <<fvars, vvars, svars>>

InitOrch ==
    /\ o_pc = "start"
    /\ o_i = 1
    /\ best_text = <<>>
    /\ best_confidence = Rat(0)
    /\ n_attempts = 0
    /\ last_attempt = NoAttempt
    /\ prev_attempt = NoAttempt
    /\ data_conf = NoData
    /\ tried = <<>>
    /\ fb_calls = 0
    /\ fb_outcome = "none"
    /\ fb_text = <<>>
    /\ o_result = NoResult

\* the other two components are not called
NoFixResult == [fault |-> FALSE, text |-> <<>>]

IdleFix == f_pc = "idle" /\ f_text = <<>> /\ f_aggressive = FALSE /\ f_result = NoFixResult

NoValResult == [fault |-> FALSE, is_valid |-> FALSE, grade |-> "", suggestions |-> <<>>]

IdleValidate == v_pc = "idle" /\ v_text = <<>> /\ v_conf = 0 /\ v_result = NoValResult

IdleReconstruct == r_pc = "idle" /\ r_text = <<>> /\ r_result = <<>>

IdleExpand == a_pc = "idle" /\ a_text = <<>> /\ a_result = <<>>

IdleFormat == m_pc = "idle" /\ m_text = <<>> /\ m_once = <<>> /\ m_twice = <<>>

NoScript == [attempts |-> <<>>, fallback |-> <<>>]

IdleProcess ==
    /\ c_pc = "idle"
    /\ c_script = NoScript
    /\ c_extracted = NoResult
    /\ c_result = NoFixResult

IdleAnnotate ==
    /\ n_pc = "idle"
    /\ n_text = <<>>
    /\ n_conf = 0
    /\ n_result = <<>>
    /\ n_quality = NoValResult

\* MainWindow.__init__: both buttons enabled, no camera window, no worker
InitGui ==
    /\ upload_btn = TRUE
    /\ camera_btn = TRUE
    /\ camera_window = "none"
    /\ workers = <<>>
    /\ ocr_worker = 0
    /\ status_bar = "Tesseract OCR ready"
    /\ app_state = "running"

IdleStages ==
    IdleReconstruct /\ IdleExpand /\ IdleFormat /\ IdleProcess /\ IdleAnnotate /\ InitGui

NextOrch ==
    \/ Preprocess
    \/ PreprocessFault
    \/ ConfigOk
    \/ ConfigDataRaises
    \/ ConfigRaises
    \/ FallbackReturns
    \/ FallbackRaises
    \/ NoFallback
    \/ Return

OrchInit == InitOrch /\ IdleFix /\ IdleValidate /\ IdleStages

\* one call of enhanced_ocr_extraction
SpecOrch == OrchInit /\ [][NextOrch]_vars

----------------------------------------------------------------------------
(* re.sub on the patterns of OCR_ERROR_PATTERNS and aggressive_patterns     *)

\* \b before position i of s (i in 1..Len(s)+1)
IsWordAt(s, k) == k \in 1..Len(s) /\ s[k] \in WordChars

WordBoundary(s, i) == IsWordAt(s, i - 1) # IsWordAt(s, i)

\* the position after the longest run of characters of class cls that starts at i
RECURSIVE RunEnd(_, _, _)
RunEnd(s, i, cls) ==
    IF i <= Len(s) /\ s[i] \in cls THEN RunEnd(s, i + 1, cls) ELSE i

NoMatch == [end |-> 0, groups |-> <<>>]

\* a capture group: the characters from..to-1
Group(from, to) == [from |-> from, to |-> to]

\* \b([0-9]+)X([0-9]+)\b with X one of r.letters
MatchDigitsLetterDigits(r, s, i) ==
    LET j == RunEnd(s, i, Digits)
        k == RunEnd(s, j + 1, Digits)
    IN  IF /\ WordBoundary(s, i)
           /\ j > i
           /\ j <= Len(s) /\ s[j] \in r.letters
           /\ k > j + 1
           /\ WordBoundary(s, k)
        THEN [end |-> k, groups |-> <<Group(i, j), Group(j + 1, k)>>]
        ELSE NoMatch

\* \bX([0-9]+)\b with X one of r.letters
MatchLetterDigits(r, s, i) ==
    LET k == RunEnd(s, i + 1, Digits)
    IN  IF /\ WordBoundary(s, i)
           /\ i <= Len(s) /\ s[i] \in r.letters
           /\ k > i + 1
           /\ WordBoundary(s, k)
        THEN [end |-> k, groups |-> <<Group(i + 1, k)>>]
        ELSE NoMatch

\* is w the part of s that starts at i
StartsWithAt(s, i, w) ==
    i + Len(w) - 1 <= Len(s) /\ SubSeq(s, i, i + Len(w) - 1) = w

\* \b([0-9]+)W\b, and \b([0-9]+)W(?![a-z])\b when r.not_lower, W = r.word
MatchDigitsWord(r, s, i) ==
    LET j == RunEnd(s, i, Digits)
        k == j + Len(r.word)
    IN  IF /\ WordBoundary(s, i)
           /\ j > i
           /\ StartsWithAt(s, j, r.word)
           /\ r.not_lower => ~(k <= Len(s) /\ s[k] \in Lowers)
           /\ WordBoundary(s, k)
        THEN [end |-> k, groups |-> <<Group(i, j)>>]
        ELSE NoMatch

\* \bW\b, and \bW\b(?=[0-9]) when r.digit_next, W = r.word
MatchWord(r, s, i) ==
    LET k == i + Len(r.word)
    IN  IF /\ WordBoundary(s, i)
           /\ StartsWithAt(s, i, r.word)
           /\ WordBoundary(s, k)
           /\ r.digit_next => (k <= Len(s) /\ s[k] \in Digits)
        THEN [end |-> k, groups |-> <<>>]
        ELSE NoMatch

\* C{n,}: a longest run of at least r.min characters of r.cls
MatchRun(r, s, i) ==
    LET k == RunEnd(s, i, r.cls)
    IN  IF k - i >= r.min THEN [end |-> k, groups |-> <<>>] ELSE NoMatch

\* \b[A-Z]{2,}[a-z]{2,}[A-Z]{2,}\b
MatchGarble(r, s, i) ==
    LET j == RunEnd(s, i, Uppers)
        k == RunEnd(s, j, Lowers)
        e == RunEnd(s, k, Uppers)
    IN  IF /\ WordBoundary(s, i)
           /\ j - i >= 2
           /\ k - j >= 2
           /\ e - k >= 2
           /\ WordBoundary(s, e)
        THEN [end |-> e, groups |-> <<>>]
        ELSE NoMatch

\* the position of the first c at or after i on the same line, 0 if there is none
RECURSIVE FirstOnLine(_, _, _)
FirstOnLine(s, i, c) ==
    IF i > Len(s) \/ s[i] = "\n" THEN 0
    ELSE IF s[i] = c THEN i
    ELSE FirstOnLine(s, i + 1, c)

\* \[.*?\] with a dot that also matches a line break
MatchBracketedAcrossLines(r, s, i) ==
    LET closing == {k \in (i + 1)..Len(s) : s[k] = "]"}
    IN  IF i <= Len(s) /\ s[i] = "[" /\ closing # {}
        THEN [end |-> (CHOOSE k \in closing : \A l \in closing : k <= l) + 1,
              groups |-> <<>>]
        ELSE NoMatch

\* \[.*?\]: from a "[" to the first "]" after it, no line break between
MatchBracketed(r, s, i) ==
    LET j == FirstOnLine(s, i + 1, "]")
    IN  IF i <= Len(s) /\ s[i] = "[" /\ j > 0
        THEN [end |-> j + 1, groups |-> <<>>]
        ELSE NoMatch

\* [.,;:!?]
Punctuation == {".", ",", ";", ":", "!", "?"}

\* \s+([.,;:!?])
MatchSpaceBeforePunct(r, s, i) ==
    LET j == RunEnd(s, i, Spaces)
    IN  IF j > i /\ j <= Len(s) /\ s[j] \in Punctuation
        THEN [end |-> j + 1, groups |-> <<Group(j, j + 1)>>]
        ELSE NoMatch

\* ([.,;:!?])(?=[^\s])
MatchPunctBeforeText(r, s, i) ==
    IF i < Len(s) /\ s[i] \in Punctuation /\ s[i + 1] \notin Spaces
    THEN [end |-> i + 1, groups |-> <<Group(i, i + 1)>>]
    ELSE NoMatch

\* (\d+)\s*([a-zA-Z]+)\s+(\d+)
MatchNumberWordNumber(r, s, i) ==
    LET j == RunEnd(s, i, Digits)
        k == RunEnd(s, j, Spaces)
        l == RunEnd(s, k, Lowers \cup Uppers)
        n == RunEnd(s, l, Spaces)
        e == RunEnd(s, n, Digits)
    IN  IF j > i /\ l > k /\ n > l /\ e > n
        THEN [end |-> e, groups |-> <<Group(i, j), Group(k, l), Group(n, e)>>]
        ELSE NoMatch

\* the alternatives of mg|g|ml|mcg|tabs?|caps? in the order re tries them
dosage_units ==
    <<<<"m", "g">>, <<"g">>, <<"m", "l">>, <<"m", "c", "g">>, <<"t", "a", "b", "s">>,
      <<"t", "a", "b">>, <<"c", "a", "p", "s">>, <<"c", "a", "p">>>>

\* (\d+)\s+(mg|g|ml|mcg|tabs?|caps?)\b
MatchNumberUnit(r, s, i) ==
    LET j == RunEnd(s, i, Digits)
        k == RunEnd(s, j, Spaces)
        fits == {u \in DOMAIN dosage_units :
                    /\ StartsWithAt(s, k, dosage_units[u])
                    /\ WordBoundary(s, k + Len(dosage_units[u]))}
    IN  IF j > i /\ k > j /\ fits # {}
        THEN LET u == CHOOSE u \in fits : \A w \in fits : u <= w
             IN  [end |-> k + Len(dosage_units[u]),
                  groups |-> <<Group(i, j), Group(k, k + Len(dosage_units[u]))>>]
        ELSE NoMatch

\* \b([A-Z][a-z]+)\s+([A-Z][a-z]+)\s+(\d+\s*mg)
MatchNameNameDose(r, s, i) ==
    LET a == RunEnd(s, i + 1, Lowers)
        b == RunEnd(s, a, Spaces)
        c == RunEnd(s, b + 1, Lowers)
        d == RunEnd(s, c, Spaces)
        e == RunEnd(s, d, Digits)
        f == RunEnd(s, e, Spaces)
    IN  IF /\ WordBoundary(s, i)
           /\ i <= Len(s) /\ s[i] \in Uppers
           /\ a > i + 1
           /\ b > a
           /\ b <= Len(s) /\ s[b] \in Uppers
           /\ c > b + 1
           /\ d > c
           /\ e > d
           /\ StartsWithAt(s, f, <<"m", "g">>)
        THEN [end |-> f + 2, groups |-> <<Group(i, a), Group(b, c), Group(d, f + 2)>>]
        ELSE NoMatch

\* the match of rule r that starts at position i of s, or NoMatch
MatchAt(r, s, i) ==
    CASE r.kind = "digits_letter_digits" -> MatchDigitsLetterDigits(r, s, i)
      [] r.kind = "letter_digits" -> MatchLetterDigits(r, s, i)
      [] r.kind = "digits_word" -> MatchDigitsWord(r, s, i)
      [] r.kind = "word" -> MatchWord(r, s, i)
      [] r.kind = "run" -> MatchRun(r, s, i)
      [] r.kind = "garble" -> MatchGarble(r, s, i)
      [] r.kind = "bracketed" -> MatchBracketed(r, s, i)
      [] r.kind = "space_before_punct" -> MatchSpaceBeforePunct(r, s, i)
      [] r.kind = "punct_before_text" -> MatchPunctBeforeText(r, s, i)
      [] r.kind = "number_word_number" -> MatchNumberWordNumber(r, s, i)
      [] r.kind = "number_unit" -> MatchNumberUnit(r, s, i)
      [] r.kind = "name_name_dose" -> MatchNameNameDose(r, s, i)

\* a replacement template is a sequence of literals and group references
Lit(t) == [grp |-> 0, lit |-> t]

Ref(n) == [grp |-> n, lit |-> <<>>]

\* match.expand(template)
RECURSIVE Expand(_, _, _)
Expand(template, s, groups) ==
    IF template = <<>> THEN <<>>
    ELSE LET item == Head(template)
             part == IF item.grp = 0 THEN item.lit
                     ELSE SubSeq(s, groups[item.grp].from, groups[item.grp].to - 1)
         IN  part \o Expand(Tail(template), s, groups)

common_medications ==
    <<<<"A", "s", "p", "i", "r", "i", "n">>,
      <<"M", "e", "t", "f", "o", "r", "m", "i", "n">>,
      <<"L", "i", "s", "i", "n", "o", "p", "r", "i", "l">>,
      <<"A", "m", "o", "x", "i", "c", "i", "l", "l", "i", "n">>,
      <<"P", "r", "e", "d", "n", "i", "s", "o", "n", "e">>,
      <<"A", "t", "o", "r", "v", "a", "s", "t", "a", "t", "i", "n">>,
      <<"S", "i", "m", "v", "a", "s", "t", "a", "t", "i", "n">>,
      <<"O", "m", "e", "p", "r", "a", "z", "o", "l", "e">>,
      <<"L", "e", "v", "o", "t", "h", "y", "r", "o", "x", "i", "n", "e">>,
      <<"W", "a", "r", "f", "a", "r", "i", "n">>>>

\* suggest_medication_name
suggest_medication_name(garbled_name) ==
    LET garbled_lower == Lower(garbled_name)
        overlap(med) == Cardinality(Range(garbled_lower) \cap Range(Lower(med)))
        hits == {k \in DOMAIN common_medications :
                    10 * overlap(common_medications[k]) >= 6 * Len(common_medications[k])}
    IN  IF hits # {}
        THEN <<"[", "P", "O", "S", "S", "I", "B", "L", "Y", ":", " ">>
                \o common_medications[CHOOSE k \in hits : \A h \in hits : k <= h] \o <<"]">>
        ELSE <<"[", "U", "N", "C", "L", "E", "A", "R", " ", "M", "E", "D", "I", "C", "A",
               "T", "I", "O", "N", ":", " ">> \o garbled_name \o <<"]">>

\* what replaces the match m of rule r
Replacement(r, s, i, m) ==
    IF r.callable
    THEN suggest_medication_name(SubSeq(s, i, m.end - 1))
    ELSE Expand(r.template, s, m.groups)

\* re.sub(pattern, replacement, s) from position i on: leftmost matches, not overlapping
RECURSIVE SubFrom(_, _, _)
SubFrom(r, s, i) ==
    LET found == {j \in i..Len(s) : MatchAt(r, s, j).end > j}
    IN  IF found = {} THEN SubSeq(s, i, Len(s))
        ELSE LET j == CHOOSE k \in found : \A l \in found : k <= l
                 m == MatchAt(r, s, j)
             IN  SubSeq(s, i, j - 1) \o Replacement(r, s, j, m) \o SubFrom(r, s, m.end)

\* the group references of a template
TemplateRefs(template) == {template[k].grp : k \in DOMAIN template} \ {0}

\* re compiles the template before it searches: a reference to a group the
\* pattern does not define raises re.error ("invalid group reference")
TemplateValid(r) == r.callable \/ TemplateRefs(r.template) \subseteq 1..r.groups

Rule(kind, groups, template) ==
    [kind |-> kind, groups |-> groups, template |-> template, callable |-> FALSE,
     letters |-> {}, word |-> <<>>, not_lower |-> FALSE, digit_next |-> FALSE,
     cls |-> {}, min |-> 0]

DigitsLetterDigits(letters, template) ==
    [Rule("digits_letter_digits", 2, template) EXCEPT !.letters = letters]

LetterDigits(letters, template) ==
    [Rule("letter_digits", 1, template) EXCEPT !.letters = letters]

DigitsWord(word, not_lower, template) ==
    [Rule("digits_word", 1, template) EXCEPT !.word = word, !.not_lower = not_lower]

WordRule(word, digit_next, replacement) ==
    [Rule("word", 0, <<Lit(replacement)>>) EXCEPT !.word = word, !.digit_next = digit_next]

RunRule(cls, min, replacement) ==
    [Rule("run", 0, <<Lit(replacement)>>) EXCEPT !.cls = cls, !.min = min]

\* OCR_ERROR_PATTERNS, in the dictionary's (insertion) order
OCR_ERROR_PATTERNS ==
    << DigitsLetterDigits({"O"}, <<Ref(1), Ref(2)>>),
       DigitsLetterDigits({"o"}, <<Ref(1), Ref(2)>>),
       LetterDigits({"l"}, <<Lit(<<"1">>), Ref(2)>>),
       LetterDigits({"I"}, <<Lit(<<"1">>), Ref(2)>>),
       DigitsWord(<<"l">>, FALSE, <<Ref(1), Lit(<<"1">>)>>),
       DigitsWord(<<"I">>, FALSE, <<Ref(1), Lit(<<"1">>)>>),
       WordRule(<<"A", "s", "p", "l", "r", "l", "n">>, FALSE, <<"A", "s", "p", "i", "r", "i", "n">>),
       WordRule(<<"M", "e", "t", "f", "o", "r", "r", "n", "l", "n">>, FALSE, <<"M", "e", "t", "f", "o", "r", "m", "i", "n">>),
       WordRule(<<"L", "l", "s", "l", "n", "o", "p", "r", "i", "l">>, FALSE, <<"L", "i", "s", "i", "n", "o", "p", "r", "i", "l">>),
       WordRule(<<"A", "m", "o", "x", "l", "c", "i", "l", "l", "l", "n">>, FALSE, <<"A", "m", "o", "x", "i", "c", "i", "l", "l", "i", "n">>),
       WordRule(<<"P", "r", "e", "d", "n", "l", "s", "o", "n", "e">>, FALSE, <<"P", "r", "e", "d", "n", "i", "s", "o", "n", "e">>),
       WordRule(<<"m", "g">>, TRUE, <<"m", "g", " ">>),
       DigitsWord(<<"m", "g">>, TRUE, <<Ref(1), Lit(<<" ", "m", "g">>)>>),
       DigitsWord(<<"m", "l">>, TRUE, <<Ref(1), Lit(<<" ", "m", "l">>)>>),
       RunRule(Spaces, 1, <<" ">>),
       RunRule({"\n"}, 1, <<"\n">>) >>

\* aggressive_patterns, in the dictionary's order
aggressive_patterns ==
    << [Rule("garble", 0, <<>>) EXCEPT !.callable = TRUE],
       DigitsLetterDigits({"O", "o"}, <<Ref(1), Ref(2)>>),
       LetterDigits({"I", "l"}, <<Lit(<<"1">>), Ref(2)>>),
       RunRule({"."}, 3, <<".", ".", ".">>),
       RunRule({"!"}, 2, <<"!">>),
       RunRule({"?"}, 2, <<"?">>) >>

\* for pattern, replacement in rules.items(): text = re.sub(pattern, replacement, text)
RECURSIVE ApplyRules(_, _)
ApplyRules(rules, text) ==
    IF rules = <<>> THEN [fault |-> FALSE, text |-> text]
    ELSE IF ~TemplateValid(Head(rules)) THEN [fault |-> TRUE, text |-> <<>>]
    ELSE ApplyRules(Tail(rules), SubFrom(Head(rules), text, 1))

\* fix_ocr_errors(text, aggressive)
fix_ocr_errors(text, aggressive) ==
    LET standard == ApplyRules(OCR_ERROR_PATTERNS, text)
    IN  IF standard.fault \/ ~aggressive
        THEN standard
        ELSE ApplyRules(aggressive_patterns, standard.text)

\* Longest generated argument of fix_ocr_errors
FixMaxLen == 3

\* the characters of the generated arguments: a digit, the letters the
\* digit/letter rules look for, and a separator
FixAlphabet == {"1", "O", "l", " "}

\* "Take 1O mg bid"
TakeOneO == <<"T", "a", "k", "e", " ", "1", "O", " ", "m", "g", " ", "b", "i", "d">>

\* "Take 10 mg bid"
TakeTen == <<"T", "a", "k", "e", " ", "1", "0", " ", "m", "g", " ", "b", "i", "d">>

\* the first two texts of test_enhanced_cleaning
TestTexts ==
    {<<"T", "a", "k", "e", " ", "1", "O", " ", "m", "g", " ", "b", "i", "d", " ", "p", "o">>,
     <<"A", "s", "p", "l", "r", "I", "n", " ", "5", "O", "m", "g", " ", "q", "d">>}

\* every text over FixAlphabet of at most FixMaxLen characters, and the samples
FixTexts ==
    UNION {[1..n -> FixAlphabet] : n \in 0..FixMaxLen} \cup {TakeOneO} \cup TestTexts

\* one call fix_ocr_errors(text, aggressive)
FixCall ==
    /\ f_pc = "idle"
    /\ \E text \in FixTexts, aggressive \in BOOLEAN :
          /\ f_text' = text
          /\ f_aggressive' = aggressive
          /\ f_result' = fix_ocr_errors(text, aggressive)
    /\ f_pc' = "done"
    /\ UNCHANGED <<ovars, vvars, svars>>

FixInit == InitOrch /\ IdleFix /\ IdleValidate /\ IdleStages

\* calls of fix_ocr_errors on bounded arguments
SpecFix == FixInit /\ [][FixCall]_vars

----------------------------------------------------------------------------
(* validate_extracted_text_enhanced                                        *)

\* Longest generated text argument of the validator
ValMaxLen == 4

\* the characters of the generated texts: the marker brackets, a letter, a
\* blank and a line break
ValAlphabet == {"[", "]", "m", " ", "\n"}

\* characters for which str.isprintable() is false
NonPrintable == {"\n", "\t", "\r", "\f", "ESC", "U+FE0F"}

medical_indicators ==
    <<<<"m", "g">>,
      <<"m", "l">>,
      <<"t", "a", "b", "l", "e", "t">>,
      <<"c", "a", "p", "s", "u", "l", "e">>,
      <<"d", "a", "i", "l", "y">>,
      <<"t", "i", "m", "e", "s">>,
      <<"t", "a", "k", "e">>,
      <<"r", "x">>>>

\* w in s
Contains(s, w) == \E i \in 1..Len(s) : StartsWithAt(s, i, w)

\* re.sub(r'\[.*?\]', '', text).strip()
CleanText(text) == Strip(SubFrom(Rule("bracketed", 0, <<>>), text, 1))

\* sum(1 for c in clean_text if c.isprintable())
PrintableCount(clean_text) ==
    Cardinality({k \in DOMAIN clean_text : clean_text[k] \notin NonPrintable})

\* found_indicators
FoundIndicators(clean_text) ==
    Cardinality({k \in DOMAIN medical_indicators :
                    Contains(Lower(clean_text), Lower(medical_indicators[k]))})

\* the grades with the top grade taken only above confidence 80
QualityScoreStrict(confidence_score, length, found_indicators) ==
    IF confidence_score > 80 /\ length > 50 /\ found_indicators >= 2 THEN "EXCELLENT"
    ELSE IF confidence_score >= 60 /\ length > 30 /\ found_indicators >= 1 THEN "GOOD"
    ELSE IF confidence_score >= 40 /\ length > 15 THEN "ACCEPTABLE"
    ELSE IF length > MIN_TEXT_LENGTH THEN "POOR"
    ELSE "FAILED"

\* quality_score (utils.py:603-614)
QualityScore(confidence_score, length, found_indicators) ==
    IF confidence_score >= 80 /\ length > 50 /\ found_indicators >= 2 THEN "EXCELLENT"
    ELSE IF confidence_score >= 60 /\ length > 30 /\ found_indicators >= 1 THEN "GOOD"
    ELSE IF confidence_score >= 40 /\ length > 15 THEN "ACCEPTABLE"
    ELSE IF length > MIN_TEXT_LENGTH THEN "POOR"
    ELSE "FAILED"

\* the suggestions without the one a POOR grade adds
SuggestionsNoRetake(clean_text, found_indicators, quality_score) ==
    (IF Len(clean_text) < MIN_TEXT_LENGTH THEN <<"short">> ELSE <<>>)
      \o (IF 10 * PrintableCount(clean_text) < 7 * Len(clean_text)
          THEN <<"unreadable">> ELSE <<>>)
      \o (IF found_indicators = 0 THEN <<"no_medical">> ELSE <<>>)
      \o (IF quality_score = "FAILED" THEN <<"too_poor">> ELSE <<>>)

\* the suggestions, each named by its condition:
\*   "no_text"     No text could be extracted from the image
\*   "short"       Text is very short (n chars)
\*   "unreadable"  Text contains many unreadable characters
\*   "no_medical"  Text doesn't appear to contain medical prescription information
\*   "retake"      Consider retaking the image with better lighting and focus
\*   "too_poor"    Image quality too poor for reliable text extraction
Suggestions(clean_text, found_indicators, quality_score) ==
    (IF Len(clean_text) < MIN_TEXT_LENGTH THEN <<"short">> ELSE <<>>)
      \o (IF 10 * PrintableCount(clean_text) < 7 * Len(clean_text)
          THEN <<"unreadable">> ELSE <<>>)
      \o (IF found_indicators = 0 THEN <<"no_medical">> ELSE <<>>)
      \o (IF quality_score = "POOR" THEN <<"retake">> ELSE <<>>)
      \o (IF quality_score = "FAILED" THEN <<"too_poor">> ELSE <<>>)

\* the exception raised by printable_ratio = ... / len(clean_text) on an empty clean_text
ValFault == [fault |-> TRUE, is_valid |-> FALSE, grade |-> "", suggestions |-> <<>>]

\* validate_extracted_text_enhanced(text, confidence_score)
validate_extracted_text_enhanced(text, confidence_score) ==
    IF text = <<>> \/ Strip(text) = <<>>
    THEN [fault |-> FALSE, is_valid |-> FALSE, grade |-> "FAILED", suggestions |-> <<"no_text">>]
    ELSE LET clean_text == CleanText(text)
             found_indicators == FoundIndicators(clean_text)
             quality_score == QualityScore(confidence_score, Len(clean_text), found_indicators)
         IN  IF Len(clean_text) = 0
             THEN ValFault
             ELSE [fault |-> FALSE,
                   is_valid |-> quality_score \in {"EXCELLENT", "GOOD", "ACCEPTABLE"},
                   grade |-> quality_score,
                   suggestions |-> Suggestions(clean_text, found_indicators, quality_score)]

\* n filler characters
Filler(n) == [k \in 1..n |-> "x"]

\* a text of n characters that holds m of the marker words (m <= 3)
MarkedText(m, n) ==
    IF m = 0 THEN Filler(n)
    ELSE IF m = 1 THEN <<"m", "g", " ">> \o Filler(n - 3)
    ELSE IF m = 2 THEN <<"m", "g", " ", "R", "x", " ">> \o Filler(n - 6)
    ELSE <<"m", "g", " ", "R", "x", " ", "t", "a", "k", "e", " ">> \o Filler(n - 11)

\* "[UNCLEAR MEDICATION: ABxyCD]", a marker fix_ocr_errors writes
UnclearMarker == suggest_medication_name(<<"A", "B", "x", "y", "C", "D">>)

\* texts on both sides of every length threshold, with 0, 1 and 2 marker
\* words; 20 characters without a marker word, 60 characters with three
SampleTexts ==
    {MarkedText(m, n) : m \in 0..2, n \in {15, 16, 30, 31, 50, 51}}
      \cup {UnclearMarker, UnclearMarker \o <<" ">> \o UnclearMarker,
            UnclearMarker \o MarkedText(1, 16)}
      \cup {MarkedText(0, 20), MarkedText(3, 60)}

\* every text over ValAlphabet of at most ValMaxLen characters, and the samples
ValTexts == UNION {[1..n -> ValAlphabet] : n \in 0..ValMaxLen} \cup SampleTexts

\* the confidences passed in: both sides of every threshold, one inside each
\* of the two upper ranges, and two outside 0..100
ValConfidences == {-10, 39, 40, 50, 59, 60, 79, 80, 85, 150}

\* one call validate_extracted_text_enhanced(text, confidence_score)
Validate ==
    /\ v_pc = "idle"
    /\ \E text \in ValTexts, confidence_score \in ValConfidences :
          /\ v_text' = text
          /\ v_conf' = confidence_score
          /\ v_result' = validate_extracted_text_enhanced(text, confidence_score)
    /\ v_pc' = "done"
    /\ UNCHANGED <<ovars, fvars, svars>>

ValInit == InitOrch /\ IdleFix /\ IdleValidate /\ IdleStages

\* calls of validate_extracted_text_enhanced on bounded arguments
SpecVal == ValInit /\ [][Validate]_vars

----------------------------------------------------------------------------
(* Claims about enhanced_ocr_extraction                                    *)

\* a step of the configuration loop that recorded an attempt
AttemptStep == n_attempts' = n_attempts + 1

\* C2: in every step of the configuration loop that records an attempt, the
\* running best becomes that attempt's (trimmed text, confidence) exactly when
\* the trimmed text is non-empty and the confidence is strictly higher than the
\* running best's, or at least 80% of it with a strictly longer trimmed text;
\* otherwise the running best is unchanged.
C2_SelectionStep ==
    [][AttemptStep =>
        LET a == last_attempt'
            higher == a.conf.n * best_confidence.d > best_confidence.n * a.conf.d
            near == 10 * a.conf.n * best_confidence.d >= 8 * best_confidence.n * a.conf.d
            longer == Len(a.text) > Len(best_text)
        IN  IF a.text # <<>> /\ (higher \/ (near /\ longer))
            THEN best_text' = a.text /\ best_confidence' = a.conf
            ELSE best_text' = best_text /\ best_confidence' = best_confidence]_vars

\* C2 witness: a longer text of lower confidence (within 80%) has replaced the best
C2_Witness ==
    /\ n_attempts >= 2
    /\ best_text = last_attempt.text
    /\ best_confidence = last_attempt.conf
    /\ RatLt(last_attempt.conf, prev_attempt.conf)
    /\ Len(last_attempt.text) > Len(prev_attempt.text)
    /\ prev_attempt.text # <<>>

\* the precondition of C3 on two attempts: a1 = (text1, c1), a2 = (text2, c2)
C3_Pre(a1, a2) ==
    /\ a1.text # <<>>
    /\ a2.text # <<>>
    /\ RatLt(a2.conf, a1.conf)
    /\ 10 * a2.conf.n * a1.conf.d >= 8 * a1.conf.n * a2.conf.d
    /\ Len(a2.text) > Len(a1.text)

\* the orchestrator returned normally after exactly two recorded attempts
C3_TwoAttempts == o_pc = "done" /\ o_result.returned /\ n_attempts = 2

\* C3 as claimed: with exactly two recorded attempts that satisfy the
\* precondition, the returned text is text2 whichever attempt came first.
C3_LongerWinsAnyOrder ==
    C3_TwoAttempts =>
        /\ C3_Pre(prev_attempt, last_attempt) => o_result.text = last_attempt.text
        /\ C3_Pre(last_attempt, prev_attempt) => o_result.text = prev_attempt.text

\* C3 amended: when (text1, c1) is produced first the later, longer text2
\* replaces it; when (text2, c2) is produced first the later text1 replaces it
\* because c1 > c2; the returned text is that of the later attempt unless the
\* fallback step ran and returned text.
C3_LaterAttemptWins ==
    (C3_TwoAttempts /\ fb_outcome # "text") =>
        /\ C3_Pre(prev_attempt, last_attempt) =>
              o_result.text = last_attempt.text /\ o_result.conf = last_attempt.conf
        /\ C3_Pre(last_attempt, prev_attempt) =>
              o_result.text = last_attempt.text /\ o_result.conf = last_attempt.conf

\* C3 witness: text1 came first, text2 second, and text2 was returned
C3_Witness ==
    /\ C3_TwoAttempts
    /\ C3_Pre(prev_attempt, last_attempt)
    /\ fb_calls = 0
    /\ o_result.text = last_attempt.text

\* the confidence data of the latest recorded attempt
C4_Recorded == n_attempts > 0

C5_Fallback ==
    [][/\ fb_calls' <= 1
       /\ (o_pc = "loop" /\ o_pc' = "finish") =>
             /\ (fb_calls' = fb_calls + 1) <=>
                   (best_text = <<>> \/ best_confidence.n < 30 * best_confidence.d)
             /\ (fb_calls' = fb_calls) <=> (fb_outcome' = "none")
             /\ fb_outcome' = "text" =>
                   /\ Strip(fb_text') # <<>>
                   /\ best_text' = Strip(fb_text')
                   /\ best_confidence'.n >= 40 * best_confidence'.d
             /\ fb_outcome' # "text" =>
                   /\ best_text' = best_text
                   /\ best_confidence' = best_confidence
                   /\ (fb_outcome' = "empty" => Strip(fb_text') = <<>>)
       /\ ~(o_pc = "loop" /\ o_pc' = "finish") => fb_calls' = fb_calls
       /\ (o_pc = "finish" /\ o_pc' = "done") =>
             /\ o_result'.text = best_text
             /\ o_result'.conf = best_confidence
             /\ (fb_outcome = "text" =>
                   o_result'.text = Strip(fb_text) /\ o_result'.conf.n >= 40 * o_result'.conf.d)]_vars

\* C5 witness: a low-confidence best text was replaced by the fallback's text
C5_Witness ==
    /\ o_pc = "done"
    /\ fb_outcome = "text"
    /\ n_attempts > 0
    /\ last_attempt.text # <<>>
    /\ o_result.text = Strip(fb_text)
    /\ o_result.text # last_attempt.text
    /\ RatEq(o_result.conf, Rat(40))

\* a text that meets the minimum length
Usable(t) == Len(Strip(t)) >= MIN_TEXT_LENGTH

\* C6 as claimed: a raising configuration leaves the running best unchanged,
\* the configurations are tried in the fixed order psm 6, 4, 8, 7, 13 and all
\* of them before the orchestrator returns normally, and failure is returned
\* only if no attempt (the fallback included) yielded usable text.
C6_SkipAndFailOnlyWithoutText ==
    [][/\ (tried' # tried /\ n_attempts' = n_attempts) =>
             best_text' = best_text /\ best_confidence' = best_confidence
       /\ tried' = SubSeq(<<6, 4, 8, 7, 13>>, 1, Len(tried'))
       /\ (o_pc' \in {"finish", "done"} /\ n_attempts' + fb_calls' > 0) =>
             tried' = <<6, 4, 8, 7, 13>>
       /\ (o_pc' = "done" /\ o_result'.returned /\ ~o_result'.success) =>
             /\ n_attempts' >= 1 => ~Usable(last_attempt'.text)
             /\ n_attempts' >= 2 => ~Usable(prev_attempt'.text)
             /\ fb_outcome' = "text" => ~Usable(fb_text')]_vars

\* C7: the returned success flag is true exactly when the returned best text
\* is non-empty and its trimmed length is at least MIN_TEXT_LENGTH; the
\* orchestrator always ends by returning a value, (False, "", 0) on a fault.
C7_SuccessIffLongEnough ==
    /\ o_pc = "done" => o_result.returned
    /\ o_result.returned =>
          /\ o_result.success <=> (o_result.text # <<>> /\ Len(Strip(o_result.text)) >= 3)
          /\ o_pc = "done"
    /\ (o_result.returned /\ tried = <<>>) =>
          ~o_result.success /\ o_result.text = <<>> /\ o_result.conf = Rat(0)

\* C7 witness: a best text of exactly the minimum length was returned as success
C7_Witness ==
    /\ o_result.returned
    /\ o_result.success
    /\ Len(o_result.text) = 3

----------------------------------------------------------------------------
(* Claims about fix_ocr_errors                                             *)

\* C1 as claimed: every call of fix_ocr_errors, aggressive or not, returns a
\* text and raises nothing, every replacement template of both pattern sets
\* referring only to groups its pattern defines.
C1_NeverFaults ==
    f_pc = "done" =>
        /\ ~f_result.fault
        /\ \A k \in DOMAIN OCR_ERROR_PATTERNS :
              OCR_ERROR_PATTERNS[k].callable
                \/ \A t \in DOMAIN OCR_ERROR_PATTERNS[k].template :
                      OCR_ERROR_PATTERNS[k].template[t].grp <= OCR_ERROR_PATTERNS[k].groups
        /\ \A k \in DOMAIN aggressive_patterns :
              aggressive_patterns[k].callable
                \/ \A t \in DOMAIN aggressive_patterns[k].template :
                      aggressive_patterns[k].template[t].grp <= aggressive_patterns[k].groups

----------------------------------------------------------------------------
(* Claims about validate_extracted_text_enhanced and the confidence range  *)

\* C8 as claimed: every confidence the orchestrator records or returns and
\* every confidence the validator works with lies in the closed range 0..100,
\* whatever the caller passes in.
C8_ConfidenceInRange ==
    /\ 0 <= best_confidence.n /\ best_confidence.n <= 100 * best_confidence.d
    /\ 0 <= last_attempt.conf.n /\ last_attempt.conf.n <= 100 * last_attempt.conf.d
    /\ 0 <= o_result.conf.n /\ o_result.conf.n <= 100 * o_result.conf.d
    /\ v_pc = "done" => (0 <= v_conf /\ v_conf <= 100)

\* C9 as claimed: every call of the validator returns (is_valid, grade,
\* suggestions) with one of the five grades and raises nothing, also for a
\* non-empty text of which nothing remains once the bracketed markers are
\* stripped.
C9_ValidatorNeverFaults ==
    v_pc = "done" =>
        /\ ~v_result.fault
        /\ v_result.grade \in {"EXCELLENT", "GOOD", "ACCEPTABLE", "POOR", "FAILED"}

----------------------------------------------------------------------------
(* reconstruct_fragmented_text and should_join_lines                       *)

\* [a-zA-Z]
Letters == Lowers \cup Uppers

\* the position of the first c of s, 0 if there is none
FirstIndex(s, c) ==
    IF \E k \in DOMAIN s : s[k] = c
    THEN CHOOSE k \in DOMAIN s : s[k] = c /\ \A j \in 1..(k - 1) : s[j] # c
    ELSE 0

\* text.split('\n')
RECURSIVE SplitLines(_)
SplitLines(s) ==
    LET j == FirstIndex(s, "\n")
    IN  IF j = 0 THEN <<s>>
        ELSE <<SubSeq(s, 1, j - 1)>> \o SplitLines(SubSeq(s, j + 1, Len(s)))

\* '\n'.join(lines)
RECURSIVE JoinLines(_)
JoinLines(lines) ==
    IF lines = <<>> THEN <<>>
    ELSE IF Len(lines) = 1 THEN lines[1]
    ELSE lines[1] \o <<"\n">> \o JoinLines(Tail(lines))

\* two lines shorter than this are taken for fragments of one line
SHORT_LINE == 10

\* a slip: the test for an empty line left out
should_join_lines_any(line1, line2) ==
    \/ line1 # <<>> /\ line2 # <<>>
         /\ \/ line1[Len(line1)] \in Digits /\ line2[1] \in Letters
            \/ line1[Len(line1)] \in Lowers /\ line2[1] \in Lowers
    \/ Len(line1) < SHORT_LINE /\ Len(line2) < SHORT_LINE

\* a slip: the lowercase rule left out
should_join_lines_no_lower(line1, line2) ==
    /\ line1 # <<>> /\ line2 # <<>>
    /\ \/ line1[Len(line1)] \in Digits /\ line2[1] \in Letters
       \/ Len(line1) < SHORT_LINE /\ Len(line2) < SHORT_LINE

\* should_join_lines(line1, line2)
should_join_lines(line1, line2) ==
    IF line1 = <<>> \/ line2 = <<>> THEN FALSE
    ELSE IF \/ line1[Len(line1)] \in Digits /\ line2[1] \in Letters
            \/ line1[Len(line1)] \in Lowers /\ line2[1] \in Lowers
         THEN TRUE
    ELSE IF Len(line1) < SHORT_LINE /\ Len(line2) < SHORT_LINE THEN TRUE
    ELSE FALSE

\* a slip: a joined line is consumed but its characters are not appended
RECURSIVE JoinFollowingDropping(_, _, _)
JoinFollowingDropping(lines, i, current_line) ==
    IF i + 1 <= Len(lines) /\ should_join_lines(current_line, Strip(lines[i + 1]))
    THEN JoinFollowingDropping(lines, i + 1, current_line)
    ELSE [i |-> i, line |-> current_line]

\* the inner while of reconstruct_fragmented_text: the following lines are
\* appended to current_line as long as should_join_lines says so
RECURSIVE JoinFollowing(_, _, _)
JoinFollowing(lines, i, current_line) ==
    IF i + 1 <= Len(lines) /\ should_join_lines(current_line, Strip(lines[i + 1]))
    THEN JoinFollowing(lines, i + 1, current_line \o <<" ">> \o Strip(lines[i + 1]))
    ELSE [i |-> i, line |-> current_line]

\* the outer while of reconstruct_fragmented_text from line i on: reconstructed_lines
RECURSIVE ReconstructFrom(_, _)
ReconstructFrom(lines, i) ==
    IF i > Len(lines) THEN <<>>
    ELSE LET current_line == Strip(lines[i])
         IN  IF current_line = <<>> THEN ReconstructFrom(lines, i + 1)
             ELSE LET joined == JoinFollowing(lines, i, current_line)
                  IN  <<joined.line>> \o ReconstructFrom(lines, joined.i + 1)

\* reconstruct_fragmented_text(text)
reconstruct_fragmented_text(text) == JoinLines(ReconstructFrom(SplitLines(text), 1))

\* Most lines of a generated argument of reconstruct_fragmented_text
RecMaxLines == 3

\* the lines the generated arguments are made of: empty and blank lines,
\* short lines, and lines of SHORT_LINE characters with each kind of first
\* and last character
FragmentLines ==
    {<<>>, <<" ">>, <<"A", "b">>, <<" ", "a", "1", " ">>, <<"A", "B", "C", "D", "E">>, <<"a", "b", "c", "d", "e", "f", "g", "h", "i", "1">>, <<"A", "b", "c", "d", "e", "f", "g", "h", "i", "j">>,
     <<"a", "b", "c", "d", "e", "f", "g", "h", "i", "j">>, <<"A", "B", "C", "D", "E", "F", "G", "H", "I", "J">>}

\* every text of 1..RecMaxLines lines of FragmentLines
RecTexts == {JoinLines(ls) : ls \in UNION {[1..n -> FragmentLines] : n \in 1..RecMaxLines}}

\* one call reconstruct_fragmented_text(text)
Reconstruct ==
    /\ r_pc = "idle"
    /\ \E text \in RecTexts :
          /\ r_text' = text
          /\ r_result' = reconstruct_fragmented_text(text)
    /\ r_pc' = "done"
    /\ UNCHANGED <<ovars, fvars, vvars, avars, mvars, cvars, nvars, gvars>>

RecInit == InitOrch /\ IdleFix /\ IdleValidate /\ IdleStages

\* calls of reconstruct_fragmented_text on bounded arguments
SpecRec == RecInit /\ [][Reconstruct]_vars

----------------------------------------------------------------------------
(* Claims about reconstruct_fragmented_text                                *)

\* the join condition in the words of the pair rule
JoinCondition(line1, line2) ==
    \/ line1[Len(line1)] \in Digits /\ line2[1] \in Letters
    \/ line1[Len(line1)] \in Lowers /\ line2[1] \in Lowers
    \/ Len(line1) < 10 /\ Len(line2) < 10

\* the argument has exactly two lines, both non-empty once trimmed
TwoLineCall ==
    /\ r_pc = "done"
    /\ Len(SplitLines(r_text)) = 2
    /\ \A k \in 1..2 : Strip(SplitLines(r_text)[k]) # <<>>

\* C12: for an argument of exactly two non-empty (trimmed) lines the result is
\* the single line "line1 line2" exactly when line1 ends with a digit and
\* line2 begins with a letter, or line1 ends with a lowercase letter and
\* line2 begins with a lowercase letter, or both are shorter than 10
\* characters; otherwise the result keeps the two lines apart.
C12_PairRule ==
    TwoLineCall =>
        LET line1 == Strip(SplitLines(r_text)[1])
            line2 == Strip(SplitLines(r_text)[2])
        IN  r_result = IF JoinCondition(line1, line2)
                       THEN line1 \o <<" ">> \o line2
                       ELSE line1 \o <<"\n">> \o line2

\* two lines of 10 characters joined by the lowercase rule alone
C12_Witness ==
    /\ TwoLineCall
    /\ LET line1 == Strip(SplitLines(r_text)[1])
           line2 == Strip(SplitLines(r_text)[2])
       IN  /\ Len(line1) >= 10 /\ Len(line2) >= 10
           /\ line1[Len(line1)] \in Lowers /\ line2[1] \in Lowers
           /\ r_result = line1 \o <<" ">> \o line2

\* C13 as claimed: whenever three consecutive non-empty lines A, B, C of the
\* argument are such that the pair (A, B) and the pair (B, C) each satisfy
\* the join condition, one line of the result holds "A B C".
C13_ChainedThree ==
    r_pc = "done" =>
        LET lines == SplitLines(r_text)
        IN  \A i \in 1..(Len(lines) - 2) :
              LET A == Strip(lines[i])
                  B == Strip(lines[i + 1])
                  C == Strip(lines[i + 2])
              IN  (/\ A # <<>> /\ B # <<>> /\ C # <<>>
                   /\ JoinCondition(A, B)
                   /\ JoinCondition(B, C))
                  => \E k \in DOMAIN SplitLines(r_result) :
                        Contains(SplitLines(r_result)[k],
                                 A \o <<" ">> \o B \o <<" ">> \o C)

\* C14: no line of the result is empty or whitespace-only (a result with no
\* line at all is the empty text); empty and blank lines of the argument are
\* neither kept nor appended to a joined line, so every line of the result
\* begins and ends with a character that is not whitespace.
C14_NoBlankLine ==
    r_pc = "done" =>
        \/ r_result = <<>>
        \/ \A k \in DOMAIN SplitLines(r_result) :
              /\ Strip(SplitLines(r_result)[k]) # <<>>
              /\ Strip(SplitLines(r_result)[k]) = SplitLines(r_result)[k]

\* a blank line between two short lines, and a result that has lines
C14_Witness ==
    /\ r_pc = "done"
    /\ Len(SplitLines(r_text)) = 3
    /\ Strip(SplitLines(r_text)[2]) = <<>>
    /\ SplitLines(r_text)[1] = <<"A", "b">>
    /\ Strip(SplitLines(r_text)[3]) # <<>>
    /\ Len(SplitLines(r_result)) = 2

----------------------------------------------------------------------------
(* replace_medical_abbreviations_enhanced                                  *)

MEDICAL_ABBREVIATIONS ==
    << [key |-> <<"m", "g">>,
        full |-> <<"m", "i", "l", "l", "i", "g", "r", "a", "m", "s">>],
       [key |-> <<"g">>,
        full |-> <<"g", "r", "a", "m", "s">>],
       [key |-> <<"k", "g">>,
        full |-> <<"k", "i", "l", "o", "g", "r", "a", "m", "s">>],
       [key |-> <<"m", "l">>,
        full |-> <<"m", "i", "l", "l", "i", "l", "i", "t", "e", "r", "s">>],
       [key |-> <<"l">>,
        full |-> <<"l", "i", "t", "e", "r", "s">>],
       [key |-> <<"m", "c", "g">>,
        full |-> <<"m", "i", "c", "r", "o", "g", "r", "a", "m", "s">>],
       [key |-> <<"i", "u">>,
        full |-> <<"i", "n", "t", "e", "r", "n", "a", "t", "i", "o", "n", "a", "l", " ", "u", "n", "i", "t", "s">>],
       [key |-> <<"u">>,
        full |-> <<"u", "n", "i", "t", "s">>],
       [key |-> <<"q", "d">>,
        full |-> <<"o", "n", "c", "e", " ", "d", "a", "i", "l", "y">>],
       [key |-> <<"q", ".", "d", ".">>,
        full |-> <<"o", "n", "c", "e", " ", "d", "a", "i", "l", "y">>],
       [key |-> <<"o", "d">>,
        full |-> <<"o", "n", "c", "e", " ", "d", "a", "i", "l", "y">>],
       [key |-> <<"b", "i", "d">>,
        full |-> <<"t", "w", "i", "c", "e", " ", "d", "a", "i", "l", "y">>],
       [key |-> <<"b", ".", "i", ".", "d", ".">>,
        full |-> <<"t", "w", "i", "c", "e", " ", "d", "a", "i", "l", "y">>],
       [key |-> <<"b", "d">>,
        full |-> <<"t", "w", "i", "c", "e", " ", "d", "a", "i", "l", "y">>],
       [key |-> <<"t", "i", "d">>,
        full |-> <<"t", "h", "r", "e", "e", " ", "t", "i", "m", "e", "s", " ", "d", "a", "i", "l", "y">>],
       [key |-> <<"t", ".", "i", ".", "d", ".">>,
        full |-> <<"t", "h", "r", "e", "e", " ", "t", "i", "m", "e", "s", " ", "d", "a", "i", "l", "y">>],
       [key |-> <<"t", "d", "s">>,
        full |-> <<"t", "h", "r", "e", "e", " ", "t", "i", "m", "e", "s", " ", "d", "a", "i", "l", "y">>],
       [key |-> <<"q", "i", "d">>,
        full |-> <<"f", "o", "u", "r", " ", "t", "i", "m", "e", "s", " ", "d", "a", "i", "l", "y">>],
       [key |-> <<"q", ".", "i", ".", "d", ".">>,
        full |-> <<"f", "o", "u", "r", " ", "t", "i", "m", "e", "s", " ", "d", "a", "i", "l", "y">>],
       [key |-> <<"q", "d", "s">>,
        full |-> <<"f", "o", "u", "r", " ", "t", "i", "m", "e", "s", " ", "d", "a", "i", "l", "y">>],
       [key |-> <<"q", "4", "h">>,
        full |-> <<"e", "v", "e", "r", "y", " ", "4", " ", "h", "o", "u", "r", "s">>],
       [key |-> <<"q", "6", "h">>,
        full |-> <<"e", "v", "e", "r", "y", " ", "6", " ", "h", "o", "u", "r", "s">>],
       [key |-> <<"q", "8", "h">>,
        full |-> <<"e", "v", "e", "r", "y", " ", "8", " ", "h", "o", "u", "r", "s">>],
       [key |-> <<"q", "1", "2", "h">>,
        full |-> <<"e", "v", "e", "r", "y", " ", "1", "2", " ", "h", "o", "u", "r", "s">>],
       [key |-> <<"q", "h", "s">>,
        full |-> <<"a", "t", " ", "b", "e", "d", "t", "i", "m", "e">>],
       [key |-> <<"p", "r", "n">>,
        full |-> <<"a", "s", " ", "n", "e", "e", "d", "e", "d">>],
       [key |-> <<"p", ".", "r", ".", "n", ".">>,
        full |-> <<"a", "s", " ", "n", "e", "e", "d", "e", "d">>],
       [key |-> <<"s", "o", "s">>,
        full |-> <<"a", "s", " ", "n", "e", "e", "d", "e", "d">>],
       [key |-> <<"p", "o">>,
        full |-> <<"b", "y", " ", "m", "o", "u", "t", "h">>],
       [key |-> <<"p", ".", "o", ".">>,
        full |-> <<"b", "y", " ", "m", "o", "u", "t", "h">>],
       [key |-> <<"o", "r", "a", "l">>,
        full |-> <<"b", "y", " ", "m", "o", "u", "t", "h">>],
       [key |-> <<"i", "m">>,
        full |-> <<"i", "n", "t", "r", "a", "m", "u", "s", "c", "u", "l", "a", "r", " ", "i", "n", "j", "e", "c", "t", "i", "o", "n">>],
       [key |-> <<"i", "v">>,
        full |-> <<"i", "n", "t", "r", "a", "v", "e", "n", "o", "u", "s">>],
       [key |-> <<"s", "l">>,
        full |-> <<"u", "n", "d", "e", "r", " ", "t", "h", "e", " ", "t", "o", "n", "g", "u", "e">>],
       [key |-> <<"t", "o", "p">>,
        full |-> <<"a", "p", "p", "l", "y", " ", "t", "o", "p", "i", "c", "a", "l", "l", "y">>],
       [key |-> <<"i", "n", "h">>,
        full |-> <<"i", "n", "h", "a", "l", "e", "d">>],
       [key |-> <<"p", "r">>,
        full |-> <<"p", "e", "r", " ", "r", "e", "c", "t", "u", "m">>],
       [key |-> <<"p", "v">>,
        full |-> <<"p", "e", "r", " ", "v", "a", "g", "i", "n", "a">>],
       [key |-> <<"a", "m">>,
        full |-> <<"m", "o", "r", "n", "i", "n", "g">>],
       [key |-> <<"p", "m">>,
        full |-> <<"e", "v", "e", "n", "i", "n", "g">>],
       [key |-> <<"a", "c">>,
        full |-> <<"b", "e", "f", "o", "r", "e", " ", "m", "e", "a", "l", "s">>],
       [key |-> <<"p", "c">>,
        full |-> <<"a", "f", "t", "e", "r", " ", "m", "e", "a", "l", "s">>],
       [key |-> <<"h", "s">>,
        full |-> <<"a", "t", " ", "b", "e", "d", "t", "i", "m", "e">>],
       [key |-> <<"m", "a", "n", "e">>,
        full |-> <<"i", "n", " ", "t", "h", "e", " ", "m", "o", "r", "n", "i", "n", "g">>],
       [key |-> <<"n", "o", "c", "t", "e">>,
        full |-> <<"a", "t", " ", "n", "i", "g", "h", "t">>],
       [key |-> <<"d", "x">>,
        full |-> <<"d", "i", "a", "g", "n", "o", "s", "i", "s">>],
       [key |-> <<"r", "x">>,
        full |-> <<"p", "r", "e", "s", "c", "r", "i", "p", "t", "i", "o", "n">>],
       [key |-> <<"t", "x">>,
        full |-> <<"t", "r", "e", "a", "t", "m", "e", "n", "t">>],
       [key |-> <<"h", "x">>,
        full |-> <<"h", "i", "s", "t", "o", "r", "y">>],
       [key |-> <<"p", "t">>,
        full |-> <<"p", "a", "t", "i", "e", "n", "t">>],
       [key |-> <<"d", "r">>,
        full |-> <<"d", "o", "c", "t", "o", "r">>],
       [key |-> <<"m", "d">>,
        full |-> <<"d", "o", "c", "t", "o", "r">>],
       [key |-> <<"r", "p", "h">>,
        full |-> <<"p", "h", "a", "r", "m", "a", "c", "i", "s", "t">>],
       [key |-> <<"t", "a", "b">>,
        full |-> <<"t", "a", "b", "l", "e", "t">>],
       [key |-> <<"t", "a", "b", "s">>,
        full |-> <<"t", "a", "b", "l", "e", "t", "s">>],
       [key |-> <<"c", "a", "p">>,
        full |-> <<"c", "a", "p", "s", "u", "l", "e">>],
       [key |-> <<"c", "a", "p", "s">>,
        full |-> <<"c", "a", "p", "s", "u", "l", "e", "s">>],
       [key |-> <<"s", "u", "s", "p">>,
        full |-> <<"s", "u", "s", "p", "e", "n", "s", "i", "o", "n">>],
       [key |-> <<"s", "o", "l">>,
        full |-> <<"s", "o", "l", "u", "t", "i", "o", "n">>],
       [key |-> <<"o", "i", "n", "t">>,
        full |-> <<"o", "i", "n", "t", "m", "e", "n", "t">>],
       [key |-> <<"c", "r">>,
        full |-> <<"c", "r", "e", "a", "m">>],
       [key |-> <<"l", "o", "t">>,
        full |-> <<"l", "o", "t", "i", "o", "n">>],
       [key |-> <<"g", "t", "t">>,
        full |-> <<"d", "r", "o", "p", "s">>],
       [key |-> <<"i", "n", "j">>,
        full |-> <<"i", "n", "j", "e", "c", "t", "i", "o", "n">>],
       [key |-> <<"s", "y", "r">>,
        full |-> <<"s", "y", "r", "u", "p">>],
       [key |-> <<"e", "l", "i", "x">>,
        full |-> <<"e", "l", "i", "x", "i", "r">>] >>

\* str.strip(chars): drop the leading and trailing characters of cls
RECURSIVE StripOf(_, _)
StripOf(s, cls) ==
    IF s # <<>> /\ Head(s) \in cls THEN StripOf(Tail(s), cls)
    ELSE IF s # <<>> /\ s[Len(s)] \in cls THEN StripOf(SubSeq(s, 1, Len(s) - 1), cls)
    ELSE s

\* str.upper() on one character
UpperChar(c) ==
    IF c \in Lowers THEN UpperSeq[CHOOSE k \in DOMAIN LowerSeq : LowerSeq[k] = c] ELSE c

\* str.upper()
Upper(s) == [k \in DOMAIN s |-> UpperChar(s[k])]

\* str.title(): a letter is upper-cased after a character without case and
\* lower-cased after a letter
Title(s) ==
    [k \in DOMAIN s |-> IF k > 1 /\ s[k - 1] \in Letters THEN LowerChar(s[k])
                        ELSE UpperChar(s[k])]

\* str.isupper(): there is a letter and no letter is lowercase
IsUpper(s) == (\E k \in DOMAIN s : s[k] \in Uppers) /\ (\A k \in DOMAIN s : s[k] \notin Lowers)

\* str.istitle(): there is a letter, uppercase letters follow only characters
\* without case and lowercase letters follow only letters
IsTitle(s) ==
    /\ \E k \in DOMAIN s : s[k] \in Letters
    /\ \A k \in DOMAIN s :
          /\ s[k] \in Uppers => (k = 1 \/ s[k - 1] \notin Letters)
          /\ s[k] \in Lowers => (k > 1 /\ s[k - 1] \in Letters)

\* a slip: \s+ in place of \W+, the punctuation is not a token
TokensWordsAndBlanks(s, i) ==
    LET F[k \in 1..(Len(s) + 1)] ==
            IF k > Len(s) THEN <<>>
            ELSE IF s[k] \in WordChars /\ WordBoundary(s, k)
                 THEN <<SubSeq(s, k, RunEnd(s, k, WordChars) - 1)>> \o F[RunEnd(s, k, WordChars)]
            ELSE IF s[k] \in Spaces
                 THEN <<SubSeq(s, k, RunEnd(s, k, Spaces) - 1)>> \o F[RunEnd(s, k, Spaces)]
            ELSE F[k + 1]
    IN  F[i]

\* a slip: the period counted as a word character, [\w.]+|[^\w.]+
RECURSIVE TokensDotted(_, _)
TokensDotted(s, i) ==
    IF i > Len(s) THEN <<>>
    ELSE LET cls == IF s[i] \in WordChars \cup {"."}
                    THEN WordChars \cup {"."}
                    ELSE Range(s) \ (WordChars \cup {"."})
             j == RunEnd(s, i, cls)
         IN  <<SubSeq(s, i, j - 1)>> \o TokensDotted(s, j)

\* re.findall(r'\b\w+\b|\W+', s) from position i on
RECURSIVE Tokens(_, _)
Tokens(s, i) ==
    IF i > Len(s) THEN <<>>
    ELSE IF s[i] \in WordChars /\ WordBoundary(s, i)
         THEN LET j == RunEnd(s, i, WordChars)
              IN  <<SubSeq(s, i, j - 1)>> \o Tokens(s, j)
    ELSE IF s[i] \notin WordChars
         THEN LET j == RunEnd(s, i, Range(s) \ WordChars)
              IN  <<SubSeq(s, i, j - 1)>> \o Tokens(s, j)
    ELSE Tokens(s, i + 1)

\* a slip: the expansion is never restyled
RestyleNever(word, replacement) == replacement

\* the capitalization pattern of word given to the expansion (utils.py:498-501)
Restyle(word, replacement) ==
    IF IsUpper(word) THEN Upper(replacement)
    ELSE IF IsTitle(word) THEN Title(replacement)
    ELSE replacement

\* the indexes of the table entries whose key is the cleaned word
TableHits(word) ==
    LET clean_word == StripOf(Lower(word), {".", ",", ";", ":", "!", "?"})
    IN  {k \in DOMAIN MEDICAL_ABBREVIATIONS : MEDICAL_ABBREVIATIONS[k].key = clean_word}

\* what the loop body appends to processed_words for one token
ExpandToken(word) ==
    IF ~(word # <<>> /\ word[1] \in WordChars) THEN word
    ELSE IF TableHits(word) # {}
         THEN Restyle(word, MEDICAL_ABBREVIATIONS[CHOOSE k \in TableHits(word) : TRUE].full)
                 \o <<" ", "(">> \o word \o <<")">>
    ELSE word

\* ''.join(parts)
RECURSIVE Concat(_)
Concat(parts) == IF parts = <<>> THEN <<>> ELSE Head(parts) \o Concat(Tail(parts))

\* replace_medical_abbreviations_enhanced(text)
replace_medical_abbreviations_enhanced(text) ==
    LET words == Tokens(text, 1)
    IN  Concat([k \in DOMAIN words |-> ExpandToken(words[k])])

\* Most pieces of a generated argument of the expander
AbbrMaxPieces == 3

\* the pieces the generated arguments are made of: an abbreviation in each
\* capitalization, single letters, a word that is no abbreviation, blanks
\* and punctuation, and two abbreviations written with periods
AbbrPieces ==
    {<<"b", "i", "d">>, <<"B", "I", "D">>, <<"B", "i", "d">>, <<"b", "I", "D">>, <<"G">>, <<"x", "1">>, <<" ">>, <<".">>, <<",", " ">>,
     <<"b", ".", "i", ".", "d", ".">>, <<"q", ".", "d", ".">>}

\* every text of 0..AbbrMaxPieces pieces
AbbrTexts == {Concat(ps) : ps \in UNION {[1..n -> AbbrPieces] : n \in 0..AbbrMaxPieces}}

\* one call replace_medical_abbreviations_enhanced(text)
ExpandAbbreviations ==
    /\ a_pc = "idle"
    /\ \E text \in AbbrTexts :
          /\ a_text' = text
          /\ a_result' = replace_medical_abbreviations_enhanced(text)
    /\ a_pc' = "done"
    /\ UNCHANGED <<ovars, fvars, vvars, rvars, mvars, cvars, nvars, gvars>>

AbbrInit == InitOrch /\ IdleFix /\ IdleValidate /\ IdleStages

\* calls of replace_medical_abbreviations_enhanced on bounded arguments
SpecAbbr == AbbrInit /\ [][ExpandAbbreviations]_vars

----------------------------------------------------------------------------
(* Claims about replace_medical_abbreviations_enhanced                     *)

\* the token is a word whose lowercase form is a key of the table
IsAbbreviation(word) ==
    /\ word # <<>>
    /\ word[1] \in WordChars
    /\ \E k \in DOMAIN MEDICAL_ABBREVIATIONS : MEDICAL_ABBREVIATIONS[k].key = Lower(word)

\* the expansion of an abbreviation in the capitalization of the token
StyledExpansion(word) ==
    LET full == MEDICAL_ABBREVIATIONS[
                    CHOOSE k \in DOMAIN MEDICAL_ABBREVIATIONS :
                        MEDICAL_ABBREVIATIONS[k].key = Lower(word)].full
    IN  IF \A k \in DOMAIN word : word[k] \notin Lowers THEN Upper(full)
        ELSE IF IsTitle(word) THEN Title(full)
        ELSE full

\* C15: every word token whose lowercase form is a key of the table comes out
\* as "<expansion> (<token>)", the expansion upper-cased for an all-uppercase
\* token, title-cased for a title-case token and in the table's lowercase
\* form otherwise; "BID" gives "TWICE DAILY (BID)".
C15_ExpandsOnHit ==
    a_pc = "done" =>
        /\ \A k \in DOMAIN Tokens(a_text, 1) :
              LET word == Tokens(a_text, 1)[k]
              IN  IsAbbreviation(word) =>
                    Contains(a_result, StyledExpansion(word) \o <<" ", "(">> \o word \o <<")">>)
        /\ a_text = <<"B", "I", "D">> => a_result = <<"T", "W", "I", "C", "E", " ", "D", "A", "I", "L", "Y", " ", "(", "B", "I", "D", ")">>
        /\ a_text = <<"B", "i", "d">> => a_result = <<"T", "w", "i", "c", "e", " ", "D", "a", "i", "l", "y", " ", "(", "B", "i", "d", ")">>
        /\ a_text = <<"b", "I", "D">> => a_result = <<"t", "w", "i", "c", "e", " ", "d", "a", "i", "l", "y", " ", "(", "b", "I", "D", ")">>
        /\ a_text = <<"G">> => a_result = <<"G", "R", "A", "M", "S", " ", "(", "G", ")">>

\* the call on "BID"
C15_Witness ==
    a_pc = "done" /\ a_text = <<"B", "I", "D">> /\ a_result = <<"T", "W", "I", "C", "E", " ", "D", "A", "I", "L", "Y", " ", "(", "B", "I", "D", ")">>

\* C16: the tokens of a text, joined again, are the text; a text none of
\* whose word tokens is an abbreviation is returned unchanged; and in
\* general the result is the tokens in their order, each abbreviation
\* replaced by its expansion and every other token as it was.
C16_PassThrough ==
    a_pc = "done" =>
        LET words == Tokens(a_text, 1)
        IN  /\ Concat(words) = a_text
            /\ (\A k \in DOMAIN words : ~IsAbbreviation(words[k])) => a_result = a_text
            /\ a_result = Concat([k \in DOMAIN words |->
                                    IF IsAbbreviation(words[k])
                                    THEN StyledExpansion(words[k])
                                            \o <<" ", "(">> \o words[k] \o <<")">>
                                    ELSE words[k]])

\* a text of a word, punctuation and a word, none an abbreviation, returned as it was
C16_Witness ==
    /\ a_pc = "done"
    /\ Len(Tokens(a_text, 1)) = 3
    /\ \A k \in 1..3 : ~IsAbbreviation(Tokens(a_text, 1)[k])
    /\ Tokens(a_text, 1)[2][1] \in {".", ","}
    /\ a_result = a_text

----------------------------------------------------------------------------
(* clean_formatting_enhanced                                               *)

\* a slip: the blank left out of the replacement of the third rule ('\1\2\3')
formatting_patterns_unspaced ==
    << Rule("space_before_punct", 1, <<Ref(1)>>),
       Rule("punct_before_text", 1, <<Ref(1), Lit(<<" ">>)>>),
       Rule("number_word_number", 3, <<Ref(1), Ref(2), Ref(3)>>),
       Rule("number_unit", 2, <<Ref(1), Lit(<<" ">>), Ref(2)>>),
       RunRule(Spaces, 3, <<" ", " ", " ">>),
       RunRule({"\n"}, 3, <<"\n", "\n">>),
       Rule("name_name_dose", 3, <<Ref(1), Lit(<<" ">>), Ref(2), Lit(<<" ">>), Ref(3)>>) >>

\* the seven re.sub calls of clean_formatting_enhanced, in their order
formatting_patterns ==
    << Rule("space_before_punct", 1, <<Ref(1)>>),
       Rule("punct_before_text", 1, <<Ref(1), Lit(<<" ">>)>>),
       Rule("number_word_number", 3, <<Ref(1), Ref(2), Lit(<<" ">>), Ref(3)>>),
       Rule("number_unit", 2, <<Ref(1), Lit(<<" ">>), Ref(2)>>),
       RunRule(Spaces, 3, <<" ", " ", " ">>),
       RunRule({"\n"}, 3, <<"\n", "\n">>),
       Rule("name_name_dose", 3, <<Ref(1), Lit(<<" ">>), Ref(2), Lit(<<" ">>), Ref(3)>>) >>

\* clean_formatting_enhanced(text)
clean_formatting_enhanced(text) == Strip(ApplyRules(formatting_patterns, text).text)

\* Longest generated argument of the formatter
FmtMaxLen == 4

\* the characters of the generated arguments: a digit, a unit letter, a
\* punctuation character, a blank and a line break
FmtAlphabet == {"1", "g", ".", " ", "\n"}

\* dosage lines, punctuation runs and a two-word drug name
FmtSamples ==
    {<<"5", "m", "g">>, <<"5", " ", "m", "g", " ", "2">>, <<"5", " ", " ", "m", "g">>, <<".", ".", ".">>, <<"T", "a", "k", "e", " ", "2", " ", "t", "a", "b", "s", " ", "b", "i", "d", " ", ",", "n", "o", "w">>,
     <<"A", "b", " ", " ", "C", "d", " ", " ", "5", " ", "m", "g">>, <<"1", "g", " ", "2", "g", " ", "3">>, <<"a", "\n", "\n", "\n", "\n", "b">>}

\* every text over FmtAlphabet of at most FmtMaxLen characters, and the samples
FmtTexts == UNION {[1..n -> FmtAlphabet] : n \in 0..FmtMaxLen} \cup FmtSamples

\* a call clean_formatting_enhanced(text)
Format ==
    /\ m_pc = "idle"
    /\ \E text \in FmtTexts :
          /\ m_text' = text
          /\ m_once' = clean_formatting_enhanced(text)
    /\ m_pc' = "once"
    /\ UNCHANGED <<m_twice, ovars, fvars, vvars, rvars, avars, cvars, nvars, gvars>>

\* the call repeated on the text the first call returned
FormatAgain ==
    /\ m_pc = "once"
    /\ m_twice' = clean_formatting_enhanced(m_once)
    /\ m_pc' = "twice"
    /\ UNCHANGED <<m_text, m_once, ovars, fvars, vvars, rvars, avars, cvars, nvars, gvars>>

FmtInit == InitOrch /\ IdleFix /\ IdleValidate /\ IdleStages

\* clean_formatting_enhanced on bounded arguments, and on its own results
SpecFmt == FmtInit /\ [][Format \/ FormatAgain]_vars

----------------------------------------------------------------------------
(* Claims about clean_formatting_enhanced                                  *)

\* C17: the formatter is idempotent: applied to its own result it returns
\* that result unchanged.
C17_Idempotent == m_pc = "twice" => m_twice = m_once

\* a text the first call changed and the second call left alone
C17_Witness == m_pc = "twice" /\ m_once # m_text /\ m_once # <<>> /\ m_twice = m_once

\* C18 as claimed: in every result of the formatter no character of . , ; : ! ?
\* is preceded by whitespace, and each one that is not the last character is
\* followed by whitespace, also when several of them stand in a row.
C18_PunctuationSpacing ==
    m_pc # "idle" =>
        \A k \in DOMAIN m_once :
            m_once[k] \in {".", ",", ";", ":", "!", "?"} =>
                /\ k = 1 \/ m_once[k - 1] \notin Spaces
                /\ k = Len(m_once) \/ m_once[k + 1] \in Spaces

\* C19 as claimed: in every result of the formatter no unit token (mg, g, ml,
\* mcg, tab, tabs, cap, caps) stands directly after a digit; "5mg" comes out
\* as "5 mg" and "5 mg 2" keeps "5 mg".
C19_DosageSpacing ==
    m_pc # "idle" =>
        /\ \A k \in DOMAIN m_once :
              m_once[k] \in Digits =>
                  \A u \in DOMAIN dosage_units :
                      ~(/\ StartsWithAt(m_once, k + 1, dosage_units[u])
                        /\ WordBoundary(m_once, k + 1 + Len(dosage_units[u])))
        /\ m_text = <<"5", "m", "g">> => m_once = <<"5", " ", "m", "g">>
        /\ m_text = <<"5", " ", "m", "g", " ", "2">> => Contains(m_once, <<"5", " ", "m", "g">>)

----------------------------------------------------------------------------
(* intelligent_text_cleaning, add_confidence_indicators and the file       *)
(* handler of src/main.py that feeds it the orchestrator's result          *)

\* the confidence bands of add_confidence_indicators and, for the first two,
\* of the aggressive mode
LOW_BELOW == 30

MEDIUM_BELOW == 60

GOOD_BELOW == 80

\* the four indicator lines; an emoji code point is one element of the text
\* (the low-confidence sign is followed by the variation selector U+FE0F)
Indicators ==
    [LOW |-> <<"U+26A0", "U+FE0F">> \o <<" ", "L", "O", "W", " ", "C", "O", "N", "F", "I", "D", "E", "N", "C", "E", " ", "-", " ", "P", "l", "e", "a", "s", "e", " ", "v", "e", "r", "i", "f", "y", " ", "a", "l", "l", " ", "i", "n", "f", "o", "r", "m", "a", "t", "i", "o", "n", " ", "c", "a", "r", "e", "f", "u", "l", "l", "y">>,
     MEDIUM |-> <<"U+26A1">> \o <<" ", "M", "E", "D", "I", "U", "M", " ", "C", "O", "N", "F", "I", "D", "E", "N", "C", "E", " ", "-", " ", "S", "o", "m", "e", " ", "t", "e", "x", "t", " ", "m", "a", "y", " ", "n", "e", "e", "d", " ", "v", "e", "r", "i", "f", "i", "c", "a", "t", "i", "o", "n">>,
     GOOD |-> <<"U+2705">> \o <<" ", "G", "O", "O", "D", " ", "C", "O", "N", "F", "I", "D", "E", "N", "C", "E", " ", "-", " ", "M", "o", "s", "t", " ", "t", "e", "x", "t", " ", "s", "h", "o", "u", "l", "d", " ", "b", "e", " ", "a", "c", "c", "u", "r", "a", "t", "e">>,
     HIGH |-> <<"U+1F3AF">> \o <<" ", "H", "I", "G", "H", " ", "C", "O", "N", "F", "I", "D", "E", "N", "C", "E", " ", "-", " ", "T", "e", "x", "t", " ", "e", "x", "t", "r", "a", "c", "t", "i", "o", "n", " ", "w", "a", "s", " ", "v", "e", "r", "y", " ", "s", "u", "c", "c", "e", "s", "s", "f", "u", "l">>]

\* the bands with each upper limit counted into the lower band
ConfidenceBandInclusive(confidence_score) ==
    IF RatLe(confidence_score, Rat(LOW_BELOW))
    THEN [indicator |-> Indicators.LOW, color |-> "RED"]
    ELSE IF RatLe(confidence_score, Rat(MEDIUM_BELOW))
    THEN [indicator |-> Indicators.MEDIUM, color |-> "YELLOW"]
    ELSE IF RatLe(confidence_score, Rat(GOOD_BELOW))
    THEN [indicator |-> Indicators.GOOD, color |-> "GREEN"]
    ELSE [indicator |-> Indicators.HIGH, color |-> "GREEN"]

\* indicator and color of the band of confidence_score
ConfidenceBand(confidence_score) ==
    IF RatLt(confidence_score, Rat(LOW_BELOW))
    THEN [indicator |-> Indicators.LOW, color |-> "RED"]
    ELSE IF RatLt(confidence_score, Rat(MEDIUM_BELOW))
    THEN [indicator |-> Indicators.MEDIUM, color |-> "YELLOW"]
    ELSE IF RatLt(confidence_score, Rat(GOOD_BELOW))
    THEN [indicator |-> Indicators.GOOD, color |-> "GREEN"]
    ELSE [indicator |-> Indicators.HIGH, color |-> "GREEN"]

\* Config.COLORS: the terminal escape codes; the escape character \033 is one
\* element of the text
COLORS ==
    [GREEN |-> <<"ESC">> \o <<"[", "9", "2", "m">>, RED |-> <<"ESC">> \o <<"[", "9", "1", "m">>,
     YELLOW |-> <<"ESC">> \o <<"[", "9", "3", "m">>, BLUE |-> <<"ESC">> \o <<"[", "9", "4", "m">>,
     RESET |-> <<"ESC">> \o <<"[", "0", "m">>]

\* '-' * 60
DASHES == 60

\* add_confidence_indicators(text, confidence_score)
add_confidence_indicators(text, confidence_score) ==
    LET band == ConfidenceBand(confidence_score)
        colored_indicator ==
            IF band.color \in DOMAIN COLORS
            THEN COLORS[band.color] \o band.indicator \o COLORS["RESET"]
            ELSE band.indicator
    IN  colored_indicator \o <<"\n">> \o [k \in 1..DASHES |-> "-"] \o <<"\n">> \o text

\* aggressive=(confidence_score < 60)
Aggressive(confidence_score) == RatLt(confidence_score, Rat(MEDIUM_BELOW))

\* intelligent_text_cleaning(raw_text, confidence_score): the text returned,
\* or the exception of fix_ocr_errors passed on
intelligent_text_cleaning(raw_text, confidence_score) ==
    IF Strip(raw_text) = <<>>
    THEN [fault |-> FALSE, text |-> <<"No text could be extracted from the image">>]
    ELSE LET fixed == fix_ocr_errors(Strip(raw_text), Aggressive(confidence_score))
         IN  IF fixed.fault THEN fixed
             ELSE [fault |-> FALSE,
                   text |-> add_confidence_indicators(
                                clean_formatting_enhanced(
                                    replace_medical_abbreviations_enhanced(
                                        reconstruct_fragmented_text(fixed.text))),
                                confidence_score)]

\* the for loop of enhanced_ocr_extraction on the attempts of a script, from
\* attempt k on: the configurations after the last scripted attempt raise
RECURSIVE BestAfter(_, _, _)
BestAfter(attempts, k, best) ==
    IF k > Len(attempts) \/ k > Len(ocr_configs) THEN best
    ELSE LET avg == AvgConfidence(attempts[k].conf)
         IN  BestAfter(attempts, k + 1,
                       IF ShouldReplace(attempts[k].text, avg, best.text, best.conf)
                       THEN [text |-> Strip(attempts[k].text), conf |-> avg]
                       ELSE best)

\* enhanced_ocr_extraction on a script: the loop, the fallback, the result
ExtractFrom(script) ==
    LET best == BestAfter(script.attempts, 1, [text |-> <<>>, conf |-> Rat(0)])
        final == IF /\ best.text = <<>> \/ RatLt(best.conf, Rat(FALLBACK_BELOW))
                    /\ Strip(script.fallback) # <<>>
                 THEN [text |-> Strip(script.fallback),
                       conf |-> RatMax(best.conf, Rat(FALLBACK_FLOOR))]
                 ELSE best
    IN  [success |-> Success(final.text), text |-> final.text, conf |-> final.conf,
         returned |-> TRUE]

\* Most scripted attempts of one extraction
ScriptMaxAttempts == 2

\* "Take 2 tabs bid"
TakeTwoTabs == <<"T", "a", "k", "e", " ", "2", " ", "t", "a", "b", "s", " ", "b", "i", "d">>

\* "illegible text"
IllegibleText == <<"i", "l", "l", "e", "g", "i", "b", "l", "e", " ", "t", "e", "x", "t">>

\* a garble no medication resembles, and one that resembles Aspirin
GarbleTexts == {<<"A", "B", "x", "y", "C", "D", " ", "5">>, <<"A", "S", "p", "i", "R", "I", "N", " ", "q", "d">>}

\* the attempts a script is made of: (text, data['conf'])
ScriptAttempts ==
    {[text |-> IllegibleText, conf |-> <<20>>],
     [text |-> TakeTwoTabs, conf |-> <<75>>],
     [text |-> <<" ", "\n">>, conf |-> <<-1>>],
     [text |-> <<"a", "b">>, conf |-> <<90>>]}
      \cup {[text |-> g, conf |-> c] : g \in GarbleTexts, c \in {<<40>>, <<60>>}}

\* what the OCR capability gives on one image: the attempts of the first
\* configurations and the text of the fallback call (blank when it gives none)
Scripts ==
    {[attempts |-> a, fallback |-> f] :
        a \in UNION {[1..n -> ScriptAttempts] : n \in 0..ScriptMaxAttempts},
        f \in {<<>>, TakeTwoTabs}}

\* success, raw_text, confidence = enhanced_ocr_extraction(file_path); the
\* handler returns when success is false (main.py:73-83)
Extract ==
    /\ c_pc = "idle"
    /\ \E script \in Scripts :
          /\ c_script' = script
          /\ c_extracted' = ExtractFrom(script)
          /\ c_pc' = IF ExtractFrom(script).success THEN "extracted" ELSE "failed"
    /\ UNCHANGED <<c_result, ovars, fvars, vvars, rvars, avars, mvars, nvars, gvars>>

\* cleaned_text = intelligent_text_cleaning(raw_text, confidence); an
\* exception ends the handler in its except branch (main.py:93, 117-119)
Clean ==
    /\ c_pc = "extracted"
    /\ c_result' = intelligent_text_cleaning(c_extracted.text, c_extracted.conf)
    /\ c_pc' = "done"
    /\ UNCHANGED <<c_script, c_extracted, ovars, fvars, vvars, rvars, avars, mvars, nvars, gvars>>

RunInit == InitOrch /\ IdleFix /\ IdleValidate /\ IdleStages

\* one file handed to the handler: extraction, then cleaning
SpecRun == RunInit /\ [][Extract \/ Clean]_vars

----------------------------------------------------------------------------
(* Claims about the cleaning pipeline                                      *)

\* C11 as claimed: for the attempts ("illegible text", 20) and
\* ("Take 2 tabs bid", 75) the orchestrator returns the second text with
\* success and confidence 75, and the cleaning pipeline turns it into a text
\* that begins with the good-confidence banner and contains
\* "twice daily (bid)".
C11_EndToEnd ==
    (/\ c_pc = "done"
     /\ c_script.attempts = <<[text |-> IllegibleText, conf |-> <<20>>],
                              [text |-> TakeTwoTabs, conf |-> <<75>>]>>) =>
        /\ c_extracted.success
        /\ c_extracted.text = TakeTwoTabs
        /\ RatEq(c_extracted.conf, Rat(75))
        /\ ~c_result.fault
        /\ Contains(c_result.text, <<"t", "w", "i", "c", "e", " ", "d", "a", "i", "l", "y", " ", "(", "b", "i", "d", ")">>)
        /\ \/ StartsWithAt(c_result.text, 1, Indicators.GOOD)
           \/ StartsWithAt(c_result.text, 1, COLORS.GREEN \o Indicators.GOOD)

\* the garbles of a text: the matches of the garble pattern, as (from, to) pairs
GarblesOf(s) ==
    {[from |-> i, to |-> MatchGarble(Rule("garble", 0, <<>>), s, i).end] :
        i \in {j \in 1..Len(s) : MatchGarble(Rule("garble", 0, <<>>), s, j).end > j}}

\* C20 as claimed: the pipeline corrects in aggressive mode exactly when the
\* confidence is below 60; in aggressive mode every garble of the text comes
\* out as "[POSSIBLY: <name>]" or "[UNCLEAR MEDICATION: <garble>]", and
\* otherwise the result holds no such marker.
C20_AggressiveMarksGarbles ==
    c_pc = "done" =>
        /\ ~c_result.fault
        /\ RatLt(c_extracted.conf, Rat(60)) =>
              \A g \in GarblesOf(Strip(c_extracted.text)) :
                  Contains(c_result.text,
                           suggest_medication_name(
                               SubSeq(Strip(c_extracted.text), g.from, g.to - 1)))
        /\ ~RatLt(c_extracted.conf, Rat(60)) =>
              /\ ~Contains(c_result.text, <<"[", "P", "O", "S", "S", "I", "B", "L", "Y", ":", " ">>)
              /\ ~Contains(c_result.text, <<"[", "U", "N", "C", "L", "E", "A", "R", " ", "M", "E", "D", "I", "C", "A", "T", "I", "O", "N", ":", " ">>)

----------------------------------------------------------------------------
(* add_confidence_indicators on bounded arguments, and the validator on    *)
(* its output as src/main.py applies it                                    *)

\* Longest generated text argument of the annotator
AnnMaxLen == 2

\* the characters of the generated texts: the marker brackets, a letter of a
\* marker word and a line break
AnnAlphabet == {"[", "]", "m", "\n"}

\* "Take 2 tablets (tabs) twice daily (bid)", a cleaned text
CleanedTakeTwo == <<"T", "a", "k", "e", " ", "2", " ", "t", "a", "b", "l", "e", "t", "s", " ", "(", "t", "a", "b", "s", ")", " ", "t", "w", "i", "c", "e", " ", "d", "a", "i", "l", "y", " ", "(", "b", "i", "d", ")">>

\* every text over AnnAlphabet of at most AnnMaxLen characters, a cleaned text,
\* a text with one marker word and a text that is one bracketed marker
AnnTexts ==
    UNION {[1..n -> AnnAlphabet] : n \in 0..AnnMaxLen}
      \cup {CleanedTakeTwo, MarkedText(1, 4), UnclearMarker}

\* the confidences passed in: both sides of every band limit and of every
\* threshold of the validator, and two outside 0..100
AnnConfidences == {-10, 0, 29, 30, 39, 40, 59, 60, 79, 80, 100, 150}

\* cleaned_text = ... add_confidence_indicators(text, confidence_score)
Annotate ==
    /\ n_pc = "idle"
    /\ \E text \in AnnTexts, confidence_score \in AnnConfidences :
          /\ n_text' = text
          /\ n_conf' = confidence_score
          /\ n_result' = add_confidence_indicators(text, Rat(confidence_score))
    /\ n_pc' = "annotated"
    /\ UNCHANGED <<n_quality, ovars, fvars, vvars, rvars, avars, mvars, cvars, gvars>>

\* validate_extracted_text_enhanced(cleaned_text, confidence) (main.py:96)
ValidateAnnotated ==
    /\ n_pc = "annotated"
    /\ n_quality' = validate_extracted_text_enhanced(n_result, n_conf)
    /\ n_pc' = "validated"
    /\ UNCHANGED <<n_text, n_conf, n_result, ovars, fvars, vvars, rvars, avars, mvars,
                   cvars, gvars>>

AnnInit == InitOrch /\ IdleFix /\ IdleValidate /\ IdleStages

\* one text annotated, then validated with the same confidence
SpecAnn == AnnInit /\ [][Annotate \/ ValidateAnnotated]_vars

----------------------------------------------------------------------------
(* Claims about add_confidence_indicators                                  *)

\* the banner of a band: the indicator line between its color code and the
\* reset code
Banner(name, color) == COLORS[color] \o Indicators[name] \o COLORS.RESET

\* C21: for every confidence in 0..100 the annotator's output is the banner of
\* the band the confidence lies in ([0,30) low, [30,60) medium, [60,80) good,
\* [80,100] high; 30, 60 and 80 belong to the higher band), a line break, a
\* line of 60 dashes, a line break, and then the input text unchanged.
C21_BandsAndLayout ==
    (n_pc # "idle" /\ n_conf \in 0..100) =>
        LET banner == IF n_conf < 30 THEN Banner("LOW", "RED")
                      ELSE IF n_conf < 60 THEN Banner("MEDIUM", "YELLOW")
                      ELSE IF n_conf < 80 THEN Banner("GOOD", "GREEN")
                      ELSE Banner("HIGH", "GREEN")
        IN  n_result = banner \o <<"\n">> \o [k \in 1..60 |-> "-"] \o <<"\n">> \o n_text

\* C21 witness: a non-empty text annotated at the limit 30 carries the
\* medium banner
C21_Witness ==
    /\ n_pc # "idle"
    /\ n_conf = 30
    /\ n_text = CleanedTakeTwo
    /\ StartsWithAt(n_result, 1, COLORS.YELLOW \o Indicators.MEDIUM)

----------------------------------------------------------------------------
(* Claims about the grades of validate_extracted_text_enhanced             *)

\* C22 as claimed: with confidence 50, a cleaned text of 20 characters and no
\* marker word the validator returns grade POOR and is_valid false.
C22_Fifty20IsPoor ==
    (/\ v_pc = "done"
     /\ v_conf = 50
     /\ Len(CleanText(v_text)) = 20
     /\ FoundIndicators(CleanText(v_text)) = 0) =>
        /\ ~v_result.fault
        /\ v_result.grade = "POOR"
        /\ ~v_result.is_valid

\* the three conditions of the top grade on the arguments of the call
TopGradeConditions ==
    /\ v_conf >= 80
    /\ Len(CleanText(v_text)) > 50
    /\ FoundIndicators(CleanText(v_text)) >= 2

\* C23: a call whose confidence is at least 80, whose text without its
\* bracketed markers is longer than 50 and holds at least 2 of the marker
\* words returns grade EXCELLENT and is_valid true; a call that misses one of
\* the three conditions does not return EXCELLENT.
C23_TopGrade ==
    v_pc = "done" =>
        /\ TopGradeConditions =>
              ~v_result.fault /\ v_result.grade = "EXCELLENT" /\ v_result.is_valid
        /\ ~TopGradeConditions => v_result.grade # "EXCELLENT"

\* C23 witness: confidence 85, 60 characters, 3 marker words, graded EXCELLENT
C23_Witness ==
    /\ v_pc = "done"
    /\ v_conf = 85
    /\ v_text = MarkedText(3, 60)
    /\ FoundIndicators(CleanText(v_text)) = 3
    /\ v_result.grade = "EXCELLENT"
    /\ v_result.is_valid

\* C24: in every result the validator returns, is_valid is true exactly when
\* the grade is EXCELLENT, GOOD or ACCEPTABLE, a grade POOR or FAILED comes
\* with at least one suggestion, and for an empty or whitespace-only text the
\* result is (false, FAILED, one suggestion) at every confidence.
C24_ConsistentResult ==
    (v_pc = "done" /\ ~v_result.fault) =>
        /\ v_result.is_valid <=> v_result.grade \in {"EXCELLENT", "GOOD", "ACCEPTABLE"}
        /\ v_result.grade \in {"POOR", "FAILED"} => Len(v_result.suggestions) >= 1
        /\ Strip(v_text) = <<>> =>
              /\ ~v_result.is_valid
              /\ v_result.grade = "FAILED"
              /\ Len(v_result.suggestions) = 1

\* C24 witness: a text with a marker word graded POOR, with its one suggestion
C24_Witness ==
    /\ v_pc = "done"
    /\ v_text = MarkedText(1, 16)
    /\ v_conf = 39
    /\ v_result.grade = "POOR"
    /\ ~v_result.is_valid
    /\ Len(v_result.suggestions) = 1

----------------------------------------------------------------------------
(* Claims about what reconstruct_fragmented_text keeps                     *)

\* a line that is not empty
NonEmptyLine(line) == line # <<>>

\* the trimmed non-empty lines of a text, in their order
TrimmedLines(text) ==
    LET lines == SplitLines(text)
    IN  SelectSeq([k \in DOMAIN lines |-> Strip(lines[k])], NonEmptyLine)

\* C27: the result of reconstruct_fragmented_text is the trimmed non-empty
\* lines of its argument, in their order, each once, separated by a line
\* break or (where two lines were joined) by one blank: putting a line break
\* back for each join gives exactly those lines, so no line content is
\* dropped, duplicated or reordered.
C27_OnlySeparators ==
    r_pc = "done" =>
        LET expected == JoinLines(TrimmedLines(r_text))
        IN  /\ Len(r_result) = Len(expected)
            /\ \A k \in DOMAIN expected :
                  \/ r_result[k] = expected[k]
                  \/ expected[k] = "\n" /\ r_result[k] = " "

\* C27 witness: a three-line argument with a blank line, of which two lines
\* were joined
C27_Witness ==
    /\ r_pc = "done"
    /\ Len(SplitLines(r_text)) = 3
    /\ Len(TrimmedLines(r_text)) = 2
    /\ \E k \in DOMAIN r_result :
          JoinLines(TrimmedLines(r_text))[k] = "\n" /\ r_result[k] = " "

----------------------------------------------------------------------------
(* Claims about the running best of enhanced_ocr_extraction                *)

\* C28: the running best starts as ("", 0), and every step of the
\* configuration loop either leaves the pair (best_text, best_confidence) as
\* it is or sets both to the trimmed non-empty text and the confidence of the
\* attempt recorded in that step, so the pair always comes from one attempt;
\* best_confidence may fall in a replacement, but never in a step that leaves
\* best_text as it was.
C28_BestPairOfOneAttempt ==
    /\ best_text = <<>> /\ best_confidence = Rat(0)
    /\ [][InLoop =>
            /\ \/ best_text' = best_text /\ best_confidence' = best_confidence
               \/ /\ AttemptStep
                  /\ last_attempt'.text # <<>>
                  /\ best_text' = last_attempt'.text
                  /\ best_confidence' = last_attempt'.conf
            /\ best_text' = best_text => RatLe(best_confidence, best_confidence')]_vars

\* C28 witness: in the loop the running best is the pair of the attempt before
\* the last one; the last attempt gave another text at another confidence and
\* did not replace it
C28_Witness ==
    /\ o_pc = "loop"
    /\ n_attempts >= 2
    /\ best_text = prev_attempt.text
    /\ best_confidence = prev_attempt.conf
    /\ last_attempt.text # <<>>
    /\ last_attempt.text # best_text
    /\ RatLt(best_confidence, last_attempt.conf) \/ RatLt(last_attempt.conf, best_confidence)

----------------------------------------------------------------------------
(* Claims about the keys replace_medical_abbreviations_enhanced can match  *)

\* the tokens of the argument that are looked up in the table
LookedUp == {t \in Range(Tokens(a_text, 1)) : t # <<>> /\ t[1] \in WordChars}

\* C29: every token the expander looks up consists of word characters only
\* and no key it matches holds a period, so the keys written with periods
\* are never matched: "b.i.d." is split into the tokens b . i . d . and comes
\* out as it went in, not expanded to "twice daily".
C29_DottedKeysUnmatched ==
    a_pc = "done" =>
        /\ \A t \in LookedUp :
              /\ \A k \in DOMAIN t : t[k] \in WordChars
              /\ \A h \in TableHits(t) :
                    \A k \in DOMAIN MEDICAL_ABBREVIATIONS[h].key :
                        MEDICAL_ABBREVIATIONS[h].key[k] # "."
        /\ a_text = <<"b", ".", "i", ".", "d", ".">> =>
              /\ Tokens(a_text, 1) = <<<<"b">>, <<".">>, <<"i">>, <<".">>, <<"d">>, <<".">>>>
              /\ a_result = a_text
              /\ ~Contains(Lower(a_result), <<"t", "w", "i", "c", "e">>)

\* C29 witness: "b.i.d." went through the expander and came out unchanged,
\* while the table holds the key "b.i.d."
C29_Witness ==
    /\ a_pc = "done"
    /\ a_text = <<"b", ".", "i", ".", "d", ".">>
    /\ a_result = a_text
    /\ \E k \in DOMAIN MEDICAL_ABBREVIATIONS :
          MEDICAL_ABBREVIATIONS[k].key = <<"b", ".", "i", ".", "d", ".">>

----------------------------------------------------------------------------
(* MainWindow, CameraWindow and OCRWorker of src/gui_main.py: the user's   *)
(* actions, the worker threads and the delivery of their signals           *)

\* Most worker threads the model lets be in flight at once
MaxWorkers == 2

\* what pytesseract.image_to_string gives in a worker: no text, or a note
WorkerTexts == {<<" ", "\n">>, TakeTwoTabs}

\* the workers that have not yet emitted finished or error
InFlight == {w \in DOMAIN workers : workers[w].step \notin {"error", "finished"}}

\* the number given to a new worker: the least one no worker in the list holds
NewWorker ==
    CHOOSE n \in 1..(Len(workers) + 1) :
        /\ \A w \in DOMAIN workers : workers[w].id # n
        /\ \A k \in 1..(n - 1) : \E w \in DOMAIN workers : workers[w].id = k

\* MainWindow.process_image(image_path): both buttons disabled, a new
\* OCRWorker stored in self.ocr_worker and started; a worker already started
\* is neither awaited nor stopped
process_image(image_path) ==
    /\ status_bar' = "Processing image..."
    /\ upload_btn' = FALSE
    /\ camera_btn' = FALSE
    /\ ocr_worker' = NewWorker
    /\ workers' = Append(workers, [id |-> NewWorker, image_path |-> image_path,
                                   step |-> "started", raw_text |-> <<>>])

\* MainWindow.upload_image: a click on the enabled upload button; the file
\* dialog gives a path, or "" when the user cancels
UploadImage ==
    /\ app_state = "running"
    /\ upload_btn
    /\ Len(workers) < MaxWorkers
    /\ \E file_path \in {"", "note.png"} :
          IF file_path # ""
          THEN process_image(file_path)
          ELSE UNCHANGED <<status_bar, upload_btn, camera_btn, ocr_worker, workers>>
    /\ UNCHANGED <<camera_window, app_state>>
    /\ UNCHANGED <<ovars, fvars, vvars, rvars, avars, mvars, cvars, nvars>>

\* MainWindow.capture_via_camera: a click on the enabled camera button shows a
\* new CameraWindow, whose start_camera opens the camera or fails to
CaptureViaCamera ==
    /\ app_state = "running"
    /\ camera_btn
    /\ \E opened \in BOOLEAN :
          camera_window' = IF opened THEN "open" ELSE "no_camera"
    /\ UNCHANGED <<upload_btn, camera_btn, workers, ocr_worker, status_bar, app_state>>
    /\ UNCHANGED <<ovars, fvars, vvars, rvars, avars, mvars, cvars, nvars>>

\* CameraWindow.capture_image: a click on the capture button of the camera
\* window on screen; with a frame read, image_captured calls process_image
\* and the window closes
CaptureImage ==
    /\ app_state = "running"
    /\ camera_window \in {"open", "no_camera"}
    /\ Len(workers) < MaxWorkers
    /\ \E ret \in BOOLEAN :
          IF camera_window = "open" /\ ret
          THEN process_image("temp/captured_image.jpg") /\ camera_window' = "closed"
          ELSE UNCHANGED <<status_bar, upload_btn, camera_btn, ocr_worker, workers,
                           camera_window>>
    /\ UNCHANGED app_state
    /\ UNCHANGED <<ovars, fvars, vvars, rvars, avars, mvars, cvars, nvars>>

\* the close button of the camera window
CloseCamera ==
    /\ app_state = "running"
    /\ camera_window \in {"open", "no_camera"}
    /\ camera_window' = "closed"
    /\ UNCHANGED <<upload_btn, camera_btn, workers, ocr_worker, status_bar, app_state>>
    /\ UNCHANGED <<ovars, fvars, vvars, rvars, avars, mvars, cvars, nvars>>

\* worker w moves to step with the progress message shown by on_ocr_progress
Progress(w, step, raw_text, message) ==
    /\ workers' = [workers EXCEPT ![w].step = step, ![w].raw_text = raw_text]
    /\ status_bar' = message

\* worker w emits error or finished; the slot runs when the signal is delivered
Emit(w, signal) ==
    /\ workers' = [workers EXCEPT ![w].step = signal]
    /\ UNCHANGED status_bar

\* OCRWorker.run up to Image.open: the first progress signal
WorkerLoads ==
    /\ app_state = "running"
    /\ \E w \in DOMAIN workers :
          /\ workers[w].step = "started"
          /\ Progress(w, "loading", <<>>, "Loading image...")
    /\ UNCHANGED <<upload_btn, camera_btn, camera_window, ocr_worker, app_state>>
    /\ UNCHANGED <<ovars, fvars, vvars, rvars, avars, mvars, cvars, nvars>>

\* OCRWorker.run: Image.open returns (or raises: error), then the second
\* progress signal
WorkerOpens ==
    /\ app_state = "running"
    /\ \E w \in DOMAIN workers, opened \in BOOLEAN :
          /\ workers[w].step = "loading"
          /\ IF opened
             THEN Progress(w, "extracting", <<>>, "Extracting text...")
             ELSE Emit(w, "error")
    /\ UNCHANGED <<upload_btn, camera_btn, camera_window, ocr_worker, app_state>>
    /\ UNCHANGED <<ovars, fvars, vvars, rvars, avars, mvars, cvars, nvars>>

\* OCRWorker.run: image_to_string returns raw_text; a blank one is reported
\* with error, another with the third progress signal
WorkerExtracts ==
    /\ app_state = "running"
    /\ \E w \in DOMAIN workers, raw_text \in WorkerTexts :
          /\ workers[w].step = "extracting"
          /\ IF Strip(raw_text) = <<>>
             THEN Emit(w, "error")
             ELSE Progress(w, "cleaning", raw_text, "Cleaning text...")
    /\ UNCHANGED <<upload_btn, camera_btn, camera_window, ocr_worker, app_state>>
    /\ UNCHANGED <<ovars, fvars, vvars, rvars, avars, mvars, cvars, nvars>>

\* clean_messy_text(raw_text) (utils.py:620-632)
clean_messy_text(raw_text) == intelligent_text_cleaning(raw_text, Rat(50))

\* OCRWorker.run: clean_messy_text returns (finished) or raises (error)
WorkerCleans ==
    /\ app_state = "running"
    /\ \E w \in DOMAIN workers :
          /\ workers[w].step = "cleaning"
          /\ IF clean_messy_text(workers[w].raw_text).fault
             THEN Emit(w, "error")
             ELSE Emit(w, "finished")
    /\ UNCHANGED <<upload_btn, camera_btn, camera_window, ocr_worker, app_state>>
    /\ UNCHANGED <<ovars, fvars, vvars, rvars, avars, mvars, cvars, nvars>>

\* the sequence s without its element w
Without(s, w) == SubSeq(s, 1, w - 1) \o SubSeq(s, w + 1, Len(s))

\* MainWindow.on_ocr_finished and on_ocr_error: the signal of a worker is
\* delivered, both buttons are enabled again
WorkerReports ==
    /\ app_state = "running"
    /\ \E w \in DOMAIN workers :
          /\ workers[w].step \in {"error", "finished"}
          /\ status_bar' = IF workers[w].step = "finished"
                           THEN "OCR processing completed successfully"
                           ELSE "OCR processing failed"
          /\ workers' = Without(workers, w)
    /\ upload_btn' = TRUE
    /\ camera_btn' = TRUE
    /\ UNCHANGED <<camera_window, ocr_worker, app_state>>
    /\ UNCHANGED <<ovars, fvars, vvars, rvars, avars, mvars, cvars, nvars>>

\* a worker thread that self.ocr_worker no longer names is still running:
\* its QThread object may be destroyed while the thread runs, which ends the
\* process
DestroyedWhileRunning ==
    /\ app_state = "running"
    /\ \E w \in InFlight : workers[w].id # ocr_worker
    /\ app_state' = "aborted"
    /\ UNCHANGED <<upload_btn, camera_btn, camera_window, workers, ocr_worker, status_bar>>
    /\ UNCHANGED <<ovars, fvars, vvars, rvars, avars, mvars, cvars, nvars>>

NextGui ==
    \/ UploadImage
    \/ CaptureViaCamera
    \/ CaptureImage
    \/ CloseCamera
    \/ WorkerLoads
    \/ WorkerOpens
    \/ WorkerExtracts
    \/ WorkerCleans
    \/ WorkerReports
    \/ DestroyedWhileRunning

GuiInit == InitOrch /\ IdleFix /\ IdleValidate /\ IdleStages

\* the main window with its buttons, the camera window and the workers
SpecGui == GuiInit /\ [][NextGui]_vars

----------------------------------------------------------------------------
(* Claims about the workers of the GUI                                     *)

\* C30 as claimed: at any time at most one OCR worker is in flight, that is,
\* started by process_image and not yet at its finished or error signal.
C30_OneWorkerInFlight == Cardinality(InFlight) <= 1

====
